---- MODULE Spec2Model ----
(***************************************************************************)
(* A model of davinc123/python-tools: the RedisDB, MongoDB, MysqlDB and    *)
(* RabbitMqDB wrappers (src/tool_redis.py, src/tool_mongo.py,              *)
(* src/tool_mysql.py, src/tool_rabbitmq.py), the SQL builders of           *)
(* tool_mysql and the constructors of MysqlDB and MongoDB.                 *)
(* Each part is a state machine of its own; one specification per part     *)
(* drives it and leaves the variables of the others unchanged.             *)
(***************************************************************************)
EXTENDS Integers, Sequences, FiniteSets, TLC

(***************************************************************************)
(* Bounds of the model.                                                    *)
(***************************************************************************)
MaxElem == 2
MaxCalls == 1
MaxRetry == 3
MaxOutages == 1
MaxMsgs == 2
MaxId == 2
MaxBatch == 2
MaxMysqlCalls == 2
MaxAttempts == 2
MaxBrokerOutages == 2
MaxRabbitCalls == 2

\* error.get("code") == 11000
DuplicateKeyCode == 11000

\* Requested pop counts go one beyond what a container can hold.
MaxCount == MaxElem + 1
\* Values pushed onto the list over a run.
MaxPush == MaxElem
\* The attempt count a bounded reconnect would be configured with.
AttemptLimit == MaxRetry - 1

NULL == 0
Threads == {"t1", "t2"}
Elems == 1..MaxElem

VARIABLES
    \* ---- the Redis backend
    live,             \* client ids whose connection to the backend is alive
    backendUp,        \* whether the server accepts connections
    outages,          \* how often the server went away so far
    sstore,           \* the members of the set stored at `table`
    lstore,           \* the list stored at `table`, head first
    \* ---- the RedisDB object (shared by the threads)
    topology,         \* shape of ip_ports / service_name
    redis_handle,     \* self.__redis
    is_redis_cluster, \* self._is_redis_cluster
    clients,          \* client objects created so far (ids 1..clients)
    \* ---- one call per thread
    pc, op, ret, retry_count, conn, count, pipe, result, err,
    \* ---- history of the running call (read by the properties only)
    calls, k0, probe_failed, stale, failed_at, issued, last, applied, pushed

rvars == <<live, backendUp, outages, sstore, lstore, topology, redis_handle,
           is_redis_cluster, clients, pc, op, ret, retry_count, conn, count,
           pipe, result, err, calls, k0, probe_failed, stale, failed_at,
           issued, last, applied, pushed>>

\* ---- RedisDB.subscribe: the pub/sub side of the backend and of one call
VARIABLES
    sub_state,        \* the PubSub object's subscription: none / subscribed / closed
    inbox,            \* what pubsub.listen() has still to yield, oldest first
    published,        \* messages published to the channel so far
    has_handler,      \* whether the caller passed a handler
    handled,          \* the messages handed to the handler, in order
    infoed,           \* the messages logged for want of a handler, in order
    stop_requested    \* the caller wants the subscription to end

svars == <<sub_state, inbox, published, has_handler, handled, infoed,
           stop_requested>>

\* ---- MongoDB: the collection and one call of add or add_batch
VARIABLES
    coll,             \* the collection: id -> stored "name", or no document
    m_pc,             \* where the call stands
    m_op,             \* its arguments
    m_errors,         \* the writeErrors still to be looked at
    m_count,          \* affect_count / add_count
    m_result,         \* what the call returned
    m_err,            \* the exception that left the call
    m_stmts,          \* the update_one / replace_one statements issued
    m_reported,       \* every write error the backend reported to the call
    m_underived,      \* index of the record whose condition derivation failed
    m_logged          \* indexes of the items whose failure was logged

mvars == <<coll, m_pc, m_op, m_errors, m_count, m_result, m_err, m_stmts,
           m_reported, m_underived, m_logged>>

\* ---- MysqlDB: the pool and one operation at a time
VARIABLES
    y_pc,             \* where the operation stands
    y_op,             \* the operation and its arguments
    y_conn,           \* the operation's local conn is set (not None)
    y_cursor,         \* the operation's local cursor is set (not None)
    pool_out,         \* connections taken from the pool and not given back
    cursors_open,     \* cursors created and not closed
    y_result,         \* result / affect_count
    y_err,            \* the exception in flight or that left the operation
    y_calls           \* operations started

yvars == <<y_pc, y_op, y_conn, y_cursor, pool_out, cursors_open, y_result,
           y_err, y_calls>>

\* ---- RabbitMqDB: the object, the broker and one operation at a time
VARIABLES
    reconnect_attempts, \* self.reconnect_attempts
    broker_up,        \* the broker accepts connections
    q_outages,        \* broker and channel failures so far
    connection,       \* self.connection: none / open / closed
    channel,          \* self.channel: none / open / closed
    q_pc,             \* where the constructor or operation stands
    q_op,             \* the operation
    q_todo,           \* the steps it still has to take
    attempt,          \* the loop variable of _connect
    q_in_except,      \* _connect runs in the except clause of _ensure_connection
    q_tried,          \* connection attempts of the current _ensure_connection
    q_slept,          \* delays slept by the current _ensure_connection
    q_exhausted,      \* a ConnectionError left _ensure_connection
    q_err,            \* the exception that ended the operation
    q_calls           \* operations started

qvars == <<reconnect_attempts, broker_up, q_outages, connection, channel, q_pc,
           q_op, q_todo, attempt, q_in_except, q_tried, q_slept, q_exhausted,
           q_err, q_calls>>

\* ---- the SQL builders: the arguments of one call and what it returned
VARIABLES
    b_table,          \* table
    b_data,           \* data, and the first record of datas
    b_more,           \* the further records of datas
    b_empty,          \* datas is the empty list
    b_auto_update,    \* auto_update
    b_update_columns, \* update_columns
    b_update_columns_value, \* update_columns_value
    b_insert_ignore,  \* insert_ignore
    b_fn,             \* the builder that was called
    b_out             \* what it returned

bvars == <<b_table, b_data, b_more, b_empty, b_auto_update, b_update_columns,
           b_update_columns_value, b_insert_ignore, b_fn, b_out>>

\* ---- the constructors of MysqlDB and MongoDB
VARIABLES
    c_given,          \* the connection parameters passed as arguments
    c_env,            \* the connection parameters set in the environment
    c_class,          \* the class that was constructed, "none" before
    c_pc,             \* "new", "returned" or "raised"
    c_attrs,          \* the handles the object has: connect_pool, client, db
    c_logged          \* the except clause logged the failure

cvars == <<c_given, c_env, c_class, c_pc, c_attrs, c_logged>>

vars == <<rvars, svars, mvars, yvars, qvars, bvars, cvars>>

\* Everything outside RedisDB.
outside == <<mvars, yvars, qvars, bvars, cvars>>

nonsql == <<rvars, svars, mvars, yvars, qvars, cvars>>

nonctor == <<rvars, svars, mvars, yvars, qvars, bvars>>

\* What the methods of RedisDB other than subscribe leave alone.
nonredis == <<svars, outside>>

nonmongo == <<rvars, svars, yvars, qvars, bvars, cvars>>

nonmysql == <<rvars, svars, mvars, qvars, bvars, cvars>>

nonrabbit == <<rvars, svars, mvars, yvars, bvars, cvars>>

(***************************************************************************)
(* Helpers.                                                                *)
(***************************************************************************)
SeqOf(x, n) == [i \in 1..n |-> x]

Increasing(s) == \A i \in 1..(Len(s) - 1) : s[i] < s[i + 1]

ValueLists == {s \in UNION {[1..n -> Elems] : n \in 0..MaxElem} : Increasing(s)}

NoPipe == [cmds |-> <<>>, transaction |-> FALSE, explicit |-> FALSE,
           pos |-> 0, replies |-> <<>>]

\* The latest backend command of a call: its name, the client it went out
\* on, whether the server answered, and the replies.
Entry(c, h, ok, replies) == [cmd |-> c, handle |-> h, ok |-> ok, replies |-> replies]

NoEntry == Entry("none", 0, FALSE, <<>>)

NoResult == [kind |-> "unset", items |-> <<>>]

\* The shapes a call can return: a list, a bare value, or None.
RList(items) == [kind |-> "list", items |-> items]
RScalar(v) == [kind |-> "scalar", items |-> <<v>>]
RNone == [kind |-> "none", items |-> <<>>]

(***************************************************************************)
(* RedisDB.get_connect: the client class per topology.  A single entry in  *)
(* ip_ports gives redis.StrictRedis; several entries give a Sentinel       *)
(* master (a StrictRedis) when service_name is set, else a RedisCluster;   *)
(* both multi-entry shapes set _is_redis_cluster.                          *)
(***************************************************************************)
Topologies == {"single", "sentinel", "cluster"}

ClusterFlag(topo) == topo # "single"

\* redis-py's StrictRedis.pipeline() defaults to transaction=True (the
\* queued commands go out wrapped in MULTI/EXEC); RedisCluster.pipeline()
\* has no transactions.
PipelineDefaultTransaction(topo) == topo # "cluster"

(***************************************************************************)
(* The Redis commands the wrapper issues, as the server executes them.     *)
(* A command is [c, v]; the outcome is the new set, the new list and the   *)
(* reply.  SPOP and LPOP on an empty container reply nil (NULL).           *)
(***************************************************************************)
Cmd(c, v) == [c |-> c, v |-> v]

Exec1(cmd, S, L) ==
    CASE cmd.c = "sadd"  -> [s |-> S \cup {cmd.v}, l |-> L,
                             reply |-> IF cmd.v \in S THEN 0 ELSE 1]
      [] cmd.c = "srem"  -> [s |-> S \ {cmd.v}, l |-> L,
                             reply |-> IF cmd.v \in S THEN 1 ELSE 0]
      [] cmd.c = "lpush" -> [s |-> S, l |-> <<cmd.v>> \o L, reply |-> Len(L) + 1]
      [] cmd.c = "lpop"  -> IF L = <<>>
                            THEN [s |-> S, l |-> L, reply |-> NULL]
                            ELSE [s |-> S, l |-> Tail(L), reply |-> Head(L)]
      [] cmd.c = "spop"  -> IF cmd.v \in S
                            THEN [s |-> S \ {cmd.v}, l |-> L, reply |-> cmd.v]
                            ELSE [s |-> S, l |-> L, reply |-> NULL]
      [] cmd.c = "scard" -> [s |-> S, l |-> L, reply |-> Cardinality(S)]
      [] cmd.c = "llen"  -> [s |-> S, l |-> L, reply |-> Len(L)]

RECURSIVE ExecAll(_, _, _, _)
ExecAll(cmds, S, L, replies) ==
    IF cmds = <<>> THEN [s |-> S, l |-> L, replies |-> replies]
    ELSE LET o == Exec1(Head(cmds), S, L)
         IN ExecAll(Tail(cmds), o.s, o.l, Append(replies, o.reply))

\* SPOP removes a random member: which one is the server's choice.  The
\* choice is written into the command (v) when it executes; NULL when the
\* set is empty.
SpopChoices(S) == IF S = {} THEN {NULL} ELSE S

\* The ways n queued SPOPs can resolve against S: distinct members while
\* any are left, then nil.
PopSeqs(S, n) ==
    LET m == IF n <= Cardinality(S) THEN n ELSE Cardinality(S)
    IN {r \in [1..n -> S \cup {NULL}] :
          /\ \A i \in 1..m : r[i] \in S
          /\ \A i, j \in 1..m : i # j => r[i] # r[j]
          /\ \A i \in (m + 1)..n : r[i] = NULL}

Resolve(cmds, r) == [i \in 1..Len(cmds) |->
                        IF cmds[i].c = "spop" THEN Cmd("spop", r[i]) ELSE cmds[i]]

(***************************************************************************)
(* The calls a thread can make.                                            *)
(***************************************************************************)
Call_(name, cnt, pop, values, is_list) ==
    [name |-> name, count |-> cnt, is_pop |-> pop, values |-> values,
     is_list |-> is_list]

NoOp == Call_("none", 0, FALSE, <<>>, FALSE)

Ops ==
    {Call_(n, 0, FALSE, <<>>, FALSE) : n \in {"sget_count", "lget_count"}}
    \cup {Call_(n, 0, FALSE, v, TRUE) : n \in {"sadd", "srem", "lpush"}, v \in ValueLists}
    \cup {Call_(n, 0, FALSE, <<e>>, FALSE) : n \in {"sadd", "srem", "lpush"}, e \in Elems}
    \cup {Call_("sget", c, p, <<>>, FALSE) : c \in 1..MaxCount, p \in BOOLEAN}
    \cup {Call_("lpop", c, FALSE, <<>>, FALSE) : c \in 1..MaxCount}

\* The calls that issue one backend command and nothing else.
SingleCommand(o) ==
    \/ o.name \in {"sget_count", "lget_count"}
    \/ o.name \in {"sadd", "srem", "lpush"} /\ ~o.is_list
    \/ o.name = "sget" /\ ~o.is_pop

\* The first thing a call does with self._redis.
FirstLabel(o) ==
    CASE o.name \in {"sadd", "srem", "lpush"} /\ o.is_list -> "pipeline"
      [] o.name = "sget" /\ o.is_pop -> "scard1"
      [] o.name = "lpop" -> "llen"
      [] OTHER -> "single"

\* What the call hands back, given the replies of its command(s).
OpReturn(o, replies) ==
    CASE o.name \in {"sget_count", "lget_count"} -> RScalar(replies[1])
      [] o.name \in {"sadd", "lpush"} /\ ~o.is_list -> RScalar(replies[1])
      [] o.name = "srem" /\ ~o.is_list -> RNone
      [] o.name \in {"sadd", "srem", "lpush"} /\ o.is_list -> RNone
      [] o.name = "sget" -> RList(replies)
      [] o.name = "lpop" -> RList(replies)

ClampDropped(cnt, available) == cnt

\* count = count if count <= available else available
Clamp(cnt, available) == IF cnt <= available THEN cnt ELSE available

\* The commands a pipelined call queues, one per value or per pop.
Queued(o, cnt) ==
    CASE o.name \in {"sadd", "srem", "lpush"} ->
             [i \in 1..Len(o.values) |-> Cmd(o.name, o.values[i])]
      [] o.name = "sget" -> SeqOf(Cmd("spop", NULL), cnt)
      [] o.name = "lpop" -> SeqOf(Cmd("lpop", NULL), cnt)

NewPipelinePlain(o, cnt, topo, cluster_flag) ==
    [cmds |-> Queued(o, cnt), transaction |-> FALSE, explicit |-> FALSE,
     pos |-> 0, replies |-> <<>>]

\* pipe = self._redis.pipeline(); if not self._is_redis_cluster: pipe.multi();
\* then one queued command per value.
NewPipeline(o, cnt, topo, cluster_flag) ==
    [cmds |-> Queued(o, cnt),
     transaction |-> PipelineDefaultTransaction(topo),
     explicit |-> ~cluster_flag,
     pos |-> 0, replies |-> <<>>]

\* Whether execute() sends the queue as one MULTI ... EXEC block.
InMulti(p) == p.transaction \/ p.explicit

ReturnedHandleStale(current, old) == old

\* return self.__redis, read when the property returns.
ReturnedHandle(current, old) == current

(***************************************************************************)
(* State after RedisDB.__init__ returned: get_connect succeeded once.      *)
(***************************************************************************)
InitLists == {[i \in 1..n |-> i] : n \in 0..MaxElem}

InitSub ==
    /\ sub_state = "none"
    /\ inbox = <<>>
    /\ published = 0
    /\ has_handler = FALSE
    /\ handled = <<>>
    /\ infoed = <<>>
    /\ stop_requested = FALSE

InitRedis ==
    /\ InitSub
    /\ live = {1}
    /\ backendUp = TRUE
    /\ outages = 0
    /\ sstore \in SUBSET Elems
    /\ lstore \in InitLists
    /\ topology \in Topologies
    /\ redis_handle = 1
    /\ is_redis_cluster = ClusterFlag(topology)
    /\ clients = 1
    /\ pc = [t \in Threads |-> "idle"]
    /\ op = [t \in Threads |-> NoOp]
    /\ ret = [t \in Threads |-> "none"]
    /\ retry_count = [t \in Threads |-> 0]
    /\ conn = [t \in Threads |-> 0]
    /\ count = [t \in Threads |-> 0]
    /\ pipe = [t \in Threads |-> NoPipe]
    /\ result = [t \in Threads |-> NoResult]
    /\ err = [t \in Threads |-> "none"]
    /\ calls = [t \in Threads |-> 0]
    /\ k0 = [t \in Threads |-> 0]
    /\ probe_failed = [t \in Threads |-> FALSE]
    /\ stale = [t \in Threads |-> 0]
    /\ failed_at = [t \in Threads |-> 0]
    /\ issued = [t \in Threads |-> 0]
    /\ last = [t \in Threads |-> NoEntry]
    /\ applied = [t \in Threads |-> 0]
    /\ pushed = 0

backend == <<live, backendUp, outages>>
store == <<sstore, lstore>>
object == <<topology, redis_handle, is_redis_cluster, clients>>
history == <<calls, k0, probe_failed, stale, failed_at, issued, last, applied,
             pushed>>

(***************************************************************************)
(* The server goes away (restart, timeout): every open connection dies.    *)
(***************************************************************************)
BackendDown ==
    /\ backendUp
    /\ outages < MaxOutages
    /\ backendUp' = FALSE
    /\ live' = {}
    /\ outages' = outages + 1
    /\ UNCHANGED <<store, object, pc, op, ret, retry_count, conn, count, pipe,
                   result, err, history>>
    /\ UNCHANGED nonredis

BackendUp ==
    /\ ~backendUp
    /\ backendUp' = TRUE
    /\ UNCHANGED <<live, outages, store, object, pc, op, ret, retry_count, conn,
                   count, pipe, result, err, history>>
    /\ UNCHANGED nonredis

(***************************************************************************)
(* A thread enters a public method of the shared RedisDB object.           *)
(***************************************************************************)
RedisCallOf(t, menu, limit) ==
    /\ pc[t] \in {"idle", "done", "raised"}
    /\ calls[t] < limit
    /\ \E o \in menu :
         /\ o.name = "lpush" => pushed + Len(o.values) <= MaxPush
         /\ op' = [op EXCEPT ![t] = o]
         /\ ret' = [ret EXCEPT ![t] = FirstLabel(o)]
         /\ count' = [count EXCEPT ![t] = o.count]
         /\ k0' = [k0 EXCEPT ![t] = IF o.name = "lpop" THEN Len(lstore)
                                    ELSE Cardinality(sstore)]
         /\ pushed' = IF o.name = "lpush" THEN pushed + Len(o.values) ELSE pushed
    /\ pc' = [pc EXCEPT ![t] = "probe"]
    /\ calls' = [calls EXCEPT ![t] = @ + 1]
    /\ retry_count' = [retry_count EXCEPT ![t] = 0]
    /\ conn' = [conn EXCEPT ![t] = 0]
    /\ pipe' = [pipe EXCEPT ![t] = NoPipe]
    /\ result' = [result EXCEPT ![t] = NoResult]
    /\ err' = [err EXCEPT ![t] = "none"]
    /\ probe_failed' = [probe_failed EXCEPT ![t] = FALSE]
    /\ stale' = [stale EXCEPT ![t] = 0]
    /\ failed_at' = [failed_at EXCEPT ![t] = 0]
    /\ issued' = [issued EXCEPT ![t] = 0]
    /\ last' = [last EXCEPT ![t] = NoEntry]
    /\ applied' = [applied EXCEPT ![t] = 0]
    /\ UNCHANGED <<backend, store, object>>
    /\ UNCHANGED nonredis

(***************************************************************************)
(* RedisDB.sdelete: cursor = "0", then while cursor != "0" one round of    *)
(* sscan(count=500) and a pipeline of srem for what the scan gave.  The    *)
(* rounds end when the server hands the cursor "0" back, and by then every *)
(* member has been scanned and removed.  self._redis is read only inside   *)
(* the loop.                                                               *)
(***************************************************************************)
SdeleteCursor == "0"

sdelete_rounds(cursor, members) == IF cursor # "0" THEN {} ELSE members

sdelete(t) ==
    /\ pc[t] \in {"idle", "done", "raised"}
    /\ calls[t] < 1
    /\ op' = [op EXCEPT ![t] = Call_("sdelete", 0, FALSE, <<>>, FALSE)]
    /\ sstore' = sdelete_rounds(SdeleteCursor, sstore)
    /\ result' = [result EXCEPT ![t] = RNone]
    /\ pc' = [pc EXCEPT ![t] = "done"]
    /\ k0' = [k0 EXCEPT ![t] = Cardinality(sstore)]
    /\ calls' = [calls EXCEPT ![t] = @ + 1]
    /\ ret' = [ret EXCEPT ![t] = "none"]
    /\ count' = [count EXCEPT ![t] = 0]
    /\ retry_count' = [retry_count EXCEPT ![t] = 0]
    /\ conn' = [conn EXCEPT ![t] = 0]
    /\ pipe' = [pipe EXCEPT ![t] = NoPipe]
    /\ err' = [err EXCEPT ![t] = "none"]
    /\ probe_failed' = [probe_failed EXCEPT ![t] = FALSE]
    /\ stale' = [stale EXCEPT ![t] = 0]
    /\ failed_at' = [failed_at EXCEPT ![t] = 0]
    /\ issued' = [issued EXCEPT ![t] = 0]
    /\ last' = [last EXCEPT ![t] = NoEntry]
    /\ applied' = [applied EXCEPT ![t] = 0]
    /\ UNCHANGED <<backend, lstore, object, pushed>>
    /\ UNCHANGED nonredis

(***************************************************************************)
(* RedisDB._redis (the property): ping the current client; when the ping   *)
(* fails or raises, run _reconnect.                                        *)
(***************************************************************************)
redis_getter(t) ==
    /\ pc[t] = "probe"
    /\ IF redis_handle \in live
       THEN /\ conn' = [conn EXCEPT ![t] = redis_handle]
            /\ pc' = [pc EXCEPT ![t] = ret[t]]
            /\ UNCHANGED <<retry_count, probe_failed, stale, failed_at>>
       ELSE /\ pc' = [pc EXCEPT ![t] = "reconnect"]
            /\ retry_count' = [retry_count EXCEPT ![t] = 0]
            /\ probe_failed' = [probe_failed EXCEPT ![t] = TRUE]
            /\ stale' = [stale EXCEPT ![t] = redis_handle]
            /\ failed_at' = [failed_at EXCEPT ![t] = issued[t]]
            /\ UNCHANGED conn
    /\ UNCHANGED <<backend, store, object, op, ret, count, pipe, result, err,
                   calls, k0, issued, last, applied, pushed>>
    /\ UNCHANGED nonredis

(***************************************************************************)
(* RedisDB._reconnect, one turn of its `while True`: retry_count += 1 and  *)
(* get_connect().  get_connect builds a new client, stores it in           *)
(* self.__redis, sets _is_redis_cluster and pings.  True ends the loop; a  *)
(* ConnectionError or TimeoutError is logged and the loop sleeps; any      *)
(* other exception of get_connect leaves _reconnect.                       *)
(***************************************************************************)
reconnect(t) ==
    /\ pc[t] = "reconnect"
    /\ retry_count[t] < MaxRetry
    /\ retry_count' = [retry_count EXCEPT ![t] = @ + 1]
    /\ \/ /\ backendUp
          /\ clients' = clients + 1
          /\ redis_handle' = clients + 1
          /\ is_redis_cluster' = ClusterFlag(topology)
          /\ live' = live \cup {clients + 1}
          /\ pc' = [pc EXCEPT ![t] = "ret_handle"]
          /\ UNCHANGED err
       \/ /\ ~backendUp
          /\ clients' = clients + 1
          /\ redis_handle' = clients + 1
          /\ is_redis_cluster' = ClusterFlag(topology)
          /\ pc' = [pc EXCEPT ![t] = "sleep"]
          /\ UNCHANGED <<live, err>>
       \/ /\ ~backendUp
          /\ pc' = [pc EXCEPT ![t] = "raised"]
          /\ err' = [err EXCEPT ![t] = "OtherError"]
          /\ UNCHANGED <<live, clients, redis_handle, is_redis_cluster>>
    /\ UNCHANGED <<backendUp, outages, store, topology, op, ret, conn, count,
                   pipe, result, history>>
    /\ UNCHANGED nonredis

\* time.sleep(2), then the next turn.
reconnect_sleep(t) ==
    /\ pc[t] = "sleep"
    /\ pc' = [pc EXCEPT ![t] = "reconnect"]
    /\ UNCHANGED <<backend, store, object, op, ret, retry_count, conn, count,
                   pipe, result, err, history>>
    /\ UNCHANGED nonredis

\* _reconnect returned True: the property returns self.__redis.
redis_getter_return(t) ==
    /\ pc[t] = "ret_handle"
    /\ conn' = [conn EXCEPT ![t] = ReturnedHandle(redis_handle, stale[t])]
    /\ pc' = [pc EXCEPT ![t] = ret[t]]
    /\ UNCHANGED <<backend, store, object, op, ret, retry_count, count, pipe,
                   result, err, history>>
    /\ UNCHANGED nonredis

(***************************************************************************)
(* Backend commands.  A command sent on a client whose connection is dead  *)
(* raises ConnectionError, which no method of RedisDB catches.             *)
(***************************************************************************)

Logged(t, c, ok, replies) ==
    /\ issued' = [issued EXCEPT ![t] = @ + 1]
    /\ last' = [last EXCEPT ![t] = Entry(c, conn[t], ok, replies)]

Raises(t, kind) ==
    /\ pc' = [pc EXCEPT ![t] = "raised"]
    /\ err' = [err EXCEPT ![t] = kind]

Returns(t, value) ==
    /\ pc' = [pc EXCEPT ![t] = "done"]
    /\ result' = [result EXCEPT ![t] = value]

\* self._redis is read again: the next command starts with a new probe.
Access(t, label) ==
    /\ pc' = [pc EXCEPT ![t] = "probe"]
    /\ ret' = [ret EXCEPT ![t] = label]

\* srandmember(table, count): up to count distinct members.
RandMembers(S, n) ==
    {r \in ValueLists : /\ \A i \in 1..Len(r) : r[i] \in S
                        /\ Len(r) = IF n <= Cardinality(S) THEN n
                                     ELSE Cardinality(S)}

SingleCmd(o) ==
    CASE o.name = "sget_count" -> Cmd("scard", NULL)
      [] o.name = "lget_count" -> Cmd("llen", NULL)
      [] OTHER -> Cmd(o.name, o.values[1])

\* sget_count, lget_count, sadd / srem / lpush of one value, and
\* sget(is_pop=False): one command on the handle the property returned.
single(t) ==
    /\ pc[t] = "single"
    /\ IF conn[t] \notin live
       THEN /\ Raises(t, "ConnectionError")
            /\ Logged(t, op[t].name, FALSE, <<>>)
            /\ UNCHANGED <<store, result>>
       ELSE IF op[t].name = "sget"
       THEN /\ \E r \in RandMembers(sstore, op[t].count) :
                 /\ Returns(t, OpReturn(op[t], r))
                 /\ Logged(t, "srandmember", TRUE, r)
            /\ UNCHANGED <<store, err>>
       ELSE LET out == Exec1(SingleCmd(op[t]), sstore, lstore)
            IN /\ sstore' = out.s
               /\ lstore' = out.l
               /\ Returns(t, OpReturn(op[t], <<out.reply>>))
               /\ Logged(t, op[t].name, TRUE, <<out.reply>>)
               /\ UNCHANGED err
    /\ UNCHANGED <<backend, object, op, ret, retry_count, conn, count, pipe,
                   calls, k0, probe_failed, stale, failed_at, applied, pushed>>
    /\ UNCHANGED nonredis

\* What sget / lpop do once count is settled: nothing for 0, one direct
\* pop for 1, a pipeline of pops otherwise.
AfterClamp(t, c, empty, one) ==
    /\ count' = [count EXCEPT ![t] = c]
    /\ IF c = 0
       THEN /\ Returns(t, empty)
            /\ UNCHANGED ret
       ELSE /\ Access(t, IF c > 1 THEN "pipeline" ELSE one)
            /\ UNCHANGED result

\* sget(is_pop=True), the condition of line 207: count <= self.sget_count(table)
sget_scard1(t) ==
    /\ pc[t] = "scard1"
    /\ IF conn[t] \notin live
       THEN /\ Raises(t, "ConnectionError")
            /\ Logged(t, "scard", FALSE, <<>>)
            /\ UNCHANGED <<ret, count, result>>
       ELSE /\ Logged(t, "scard", TRUE, <<Cardinality(sstore)>>)
            /\ UNCHANGED err
            /\ IF count[t] <= Cardinality(sstore)
               THEN AfterClamp(t, count[t], RList(<<>>), "spop1")
               ELSE /\ Access(t, "scard2")
                    /\ UNCHANGED <<count, result>>
    /\ UNCHANGED <<backend, store, object, op, retry_count, conn, pipe, calls,
                   k0, probe_failed, stale, failed_at, applied, pushed>>
    /\ UNCHANGED nonredis

\* ... else self.sget_count(table): the set is counted a second time and
\* that count is taken as it is.
sget_scard2(t) ==
    /\ pc[t] = "scard2"
    /\ IF conn[t] \notin live
       THEN /\ Raises(t, "ConnectionError")
            /\ Logged(t, "scard", FALSE, <<>>)
            /\ UNCHANGED <<ret, count, result>>
       ELSE /\ Logged(t, "scard", TRUE, <<Cardinality(sstore)>>)
            /\ UNCHANGED err
            /\ AfterClamp(t, Cardinality(sstore), RList(<<>>), "spop1")
    /\ UNCHANGED <<backend, store, object, op, retry_count, conn, pipe, calls,
                   k0, probe_failed, stale, failed_at, applied, pushed>>
    /\ UNCHANGED nonredis

\* datas.append(self._redis.spop(table))
sget_spop(t) ==
    /\ pc[t] = "spop1"
    /\ IF conn[t] \notin live
       THEN /\ Raises(t, "ConnectionError")
            /\ Logged(t, "spop", FALSE, <<>>)
            /\ UNCHANGED <<store, result>>
       ELSE \E e \in SpopChoices(sstore) :
              LET out == Exec1(Cmd("spop", e), sstore, lstore)
              IN /\ sstore' = out.s
                 /\ lstore' = out.l
                 /\ Returns(t, RList(<<out.reply>>))
                 /\ Logged(t, "spop", TRUE, <<out.reply>>)
                 /\ UNCHANGED err
    /\ UNCHANGED <<backend, object, op, ret, retry_count, conn, count, pipe,
                   calls, k0, probe_failed, stale, failed_at, applied, pushed>>
    /\ UNCHANGED nonredis

\* lpop: lcount = self.lget_count(table); count = count if count <= lcount else lcount
lpop_llen(t) ==
    /\ pc[t] = "llen"
    /\ IF conn[t] \notin live
       THEN /\ Raises(t, "ConnectionError")
            /\ Logged(t, "llen", FALSE, <<>>)
            /\ UNCHANGED <<ret, count, result>>
       ELSE /\ Logged(t, "llen", TRUE, <<Len(lstore)>>)
            /\ UNCHANGED err
            /\ AfterClamp(t, Clamp(count[t], Len(lstore)), RNone, "lpop1")
    /\ UNCHANGED <<backend, store, object, op, retry_count, conn, pipe, calls,
                   k0, probe_failed, stale, failed_at, applied, pushed>>
    /\ UNCHANGED nonredis

\* datas = self._redis.lpop(table): the bare element, not a list
lpop_one(t) ==
    /\ pc[t] = "lpop1"
    /\ IF conn[t] \notin live
       THEN /\ Raises(t, "ConnectionError")
            /\ Logged(t, "lpop", FALSE, <<>>)
            /\ UNCHANGED <<store, result>>
       ELSE LET out == Exec1(Cmd("lpop", NULL), sstore, lstore)
            IN /\ sstore' = out.s
               /\ lstore' = out.l
               /\ Returns(t, RScalar(out.reply))
               /\ Logged(t, "lpop", TRUE, <<out.reply>>)
               /\ UNCHANGED err
    /\ UNCHANGED <<backend, object, op, ret, retry_count, conn, count, pipe,
                   calls, k0, probe_failed, stale, failed_at, applied, pushed>>
    /\ UNCHANGED nonredis

(***************************************************************************)
(* The pipelined variants: list-valued sadd / srem / lpush and the         *)
(* multi-element sget / lpop.                                              *)
(***************************************************************************)
\* pipe = self._redis.pipeline(); pipe.multi() unless _is_redis_cluster;
\* the commands are queued on the client side.
pipeline(t) ==
    /\ pc[t] = "pipeline"
    /\ pipe' = [pipe EXCEPT ![t] =
                  NewPipeline(op[t], count[t], topology, is_redis_cluster)]
    /\ pc' = [pc EXCEPT ![t] = "execute"]
    /\ UNCHANGED <<backend, store, object, op, ret, retry_count, conn, count,
                   result, err, history>>
    /\ UNCHANGED nonredis

\* pipe.execute() of a transaction: MULTI, the queue, EXEC in one round
\* trip; the server runs the queue without interleaving, or, when the
\* connection is dead, none of it.  An empty queue sends nothing.
execute(t) ==
    /\ pc[t] = "execute"
    /\ InMulti(pipe[t]) \/ pipe[t].cmds = <<>>
    /\ IF pipe[t].cmds = <<>>
       THEN /\ Returns(t, OpReturn(op[t], <<>>))
            /\ UNCHANGED <<store, err, issued, last, applied, pipe>>
       ELSE IF conn[t] \notin live
       THEN /\ Raises(t, "ConnectionError")
            /\ Logged(t, "execute", FALSE, <<>>)
            /\ UNCHANGED <<store, result, applied, pipe>>
       ELSE \E r \in (IF op[t].name = "sget"
                      THEN PopSeqs(sstore, Len(pipe[t].cmds))
                      ELSE {<<>>}) :
              LET out == ExecAll(Resolve(pipe[t].cmds, r), sstore, lstore, <<>>)
              IN /\ sstore' = out.s
                 /\ lstore' = out.l
                 /\ Returns(t, OpReturn(op[t], out.replies))
                 /\ Logged(t, "execute", TRUE, out.replies)
                 /\ applied' = [applied EXCEPT ![t] = Len(pipe[t].cmds)]
                 /\ pipe' = [pipe EXCEPT ![t].pos = Len(pipe[t].cmds),
                                         ![t].replies = out.replies]
                 /\ UNCHANGED err
    /\ UNCHANGED <<backend, object, op, ret, retry_count, conn, count, calls,
                   k0, probe_failed, stale, failed_at, pushed>>
    /\ UNCHANGED nonredis

\* pipe.execute() without MULTI: the queue reaches the backend command by
\* command, in order; other clients' commands may run in between and a
\* lost connection leaves the commands already run in effect.
execute_unordered(t) ==
    /\ pc[t] = "execute"
    /\ ~InMulti(pipe[t])
    /\ pipe[t].cmds # <<>>
    /\ IF conn[t] \notin live
       THEN /\ Raises(t, "ConnectionError")
            /\ Logged(t, "execute", FALSE, pipe[t].replies)
            /\ UNCHANGED <<store, result, applied, pipe>>
       ELSE \E e \in SpopChoices(sstore) :
              LET i == pipe[t].pos + 1
                  c == pipe[t].cmds[i]
                  out == Exec1(IF c.c = "spop" THEN Cmd("spop", e) ELSE c,
                               sstore, lstore)
                  replies == Append(pipe[t].replies, out.reply)
              IN /\ sstore' = out.s
                 /\ lstore' = out.l
                 /\ applied' = [applied EXCEPT ![t] = @ + 1]
                 /\ pipe' = [pipe EXCEPT ![t].pos = i, ![t].replies = replies]
                 /\ IF i = Len(pipe[t].cmds)
                    THEN /\ Returns(t, OpReturn(op[t], replies))
                         /\ Logged(t, "execute", TRUE, replies)
                    ELSE UNCHANGED <<pc, result, issued, last>>
                 /\ UNCHANGED err
    /\ UNCHANGED <<backend, object, op, ret, retry_count, conn, count, calls,
                   k0, probe_failed, stale, failed_at, pushed>>
    /\ UNCHANGED nonredis

(***************************************************************************)
(* RedisDB.subscribe(channels, handler=None).                              *)
(***************************************************************************)
Message(type, data) == [type |-> type, data |-> data]

SubscribeOp == Call_("subscribe", 0, FALSE, <<>>, FALSE)

Subscribing(t) == op[t].name = "subscribe" /\ pc[t] \notin {"idle", "done", "raised"}

\* The caller starts subscribe, with or without a handler.
SubscribeCall(t) ==
    /\ pc[t] = "idle"
    /\ calls[t] < 1
    /\ has_handler' \in BOOLEAN
    /\ op' = [op EXCEPT ![t] = SubscribeOp]
    /\ ret' = [ret EXCEPT ![t] = "subscribe"]
    /\ pc' = [pc EXCEPT ![t] = "probe"]
    /\ calls' = [calls EXCEPT ![t] = @ + 1]
    /\ UNCHANGED <<backend, store, object, retry_count, conn, count, pipe,
                   result, err, k0, probe_failed, stale, failed_at, issued,
                   last, applied, pushed>>
    /\ UNCHANGED <<sub_state, inbox, published, handled, infoed, stop_requested>>
    /\ UNCHANGED outside

\* pubsub = self._redis.pubsub(); pubsub.subscribe(*channels): the server
\* answers with a message of type 'subscribe'.
pubsub_subscribe(t) ==
    /\ pc[t] = "subscribe"
    /\ IF conn[t] \in live
       THEN /\ sub_state' = "subscribed"
            /\ inbox' = Append(inbox, Message("subscribe", 0))
            /\ pc' = [pc EXCEPT ![t] = "listen"]
            /\ UNCHANGED err
       ELSE /\ Raises(t, "ConnectionError")
            /\ UNCHANGED <<sub_state, inbox>>
    /\ UNCHANGED <<backend, store, object, op, ret, retry_count, conn, count,
                   pipe, result, history>>
    /\ UNCHANGED <<published, has_handler, handled, infoed, stop_requested>>
    /\ UNCHANGED outside

\* Somebody publishes to the channel; a live subscription receives it.
Publish ==
    /\ backendUp
    /\ published < MaxMsgs
    /\ published' = published + 1
    /\ inbox' = IF sub_state = "subscribed" /\ \E t \in Threads : Subscribing(t) /\ conn[t] \in live
                THEN Append(inbox, Message("message", published + 1))
                ELSE inbox
    /\ UNCHANGED <<rvars, outside>>
    /\ UNCHANGED <<sub_state, has_handler, handled, infoed, stop_requested>>

\* for message in pubsub.listen(): one turn whose body returns.  Only type
\* 'message' reaches the handler, or the log when there is no handler.
listen_next(t) ==
    /\ pc[t] = "listen"
    /\ inbox # <<>>
    /\ inbox' = Tail(inbox)
    /\ LET message == Head(inbox) IN
         IF message.type = "message"
         THEN IF has_handler
              THEN handled' = Append(handled, message.data) /\ UNCHANGED infoed
              ELSE infoed' = Append(infoed, message.data) /\ UNCHANGED handled
         ELSE UNCHANGED <<handled, infoed>>
    /\ UNCHANGED <<rvars, outside>>
    /\ UNCHANGED <<sub_state, published, has_handler, stop_requested>>

\* One turn in which handler(message) raises: nothing in subscribe catches.
listen_handler_raises(t) ==
    /\ pc[t] = "listen"
    /\ inbox # <<>>
    /\ Head(inbox).type = "message"
    /\ has_handler
    /\ inbox' = Tail(inbox)
    /\ handled' = Append(handled, Head(inbox).data)
    /\ Raises(t, "HandlerError")
    /\ UNCHANGED <<backend, store, object, op, ret, retry_count, conn, count,
                   pipe, result, history>>
    /\ UNCHANGED <<sub_state, published, has_handler, infoed, stop_requested>>
    /\ UNCHANGED outside

\* listen() on a dead connection raises ConnectionError.
listen_connection_lost(t) ==
    /\ pc[t] = "listen"
    /\ conn[t] \notin live
    /\ Raises(t, "ConnectionError")
    /\ UNCHANGED <<backend, store, object, op, ret, retry_count, conn, count,
                   pipe, result, history>>
    /\ UNCHANGED <<svars, outside>>

\* The caller decides that the subscription should end.  subscribe takes no
\* flag, event or timeout, and the loop reads nothing of the kind.
RequestStop(t) ==
    /\ pc[t] = "listen"
    /\ ~stop_requested
    /\ stop_requested' = TRUE
    /\ UNCHANGED <<rvars, outside>>
    /\ UNCHANGED <<sub_state, inbox, published, has_handler, handled, infoed>>

\* What is left to the caller: an exception raised into the blocked loop
\* (KeyboardInterrupt in the main thread).
interrupt(t) ==
    /\ pc[t] = "listen"
    /\ stop_requested
    /\ Raises(t, "KeyboardInterrupt")
    /\ UNCHANGED <<backend, store, object, op, ret, retry_count, conn, count,
                   pipe, result, history>>
    /\ UNCHANGED <<svars, outside>>

\* After subscribe was left by an exception the PubSub object is garbage;
\* when the interpreter collects it the connection is dropped.  No
\* UNSUBSCRIBE is sent and nothing in subscribe decides when this happens.
pubsub_del(t) ==
    /\ pc[t] = "raised"
    /\ op[t].name = "subscribe"
    /\ sub_state = "subscribed"
    /\ sub_state' = "reset"
    /\ inbox' = <<>>
    /\ UNCHANGED <<rvars, outside>>
    /\ UNCHANGED <<published, has_handler, handled, infoed, stop_requested>>

(***************************************************************************)
(* MongoDB.add and MongoDB.add_batch, on one collection with a unique      *)
(* index on "id".                                                          *)
(***************************************************************************)
MongoIds == 1..MaxId

Names == {"a", "b"}

\* A stored value for "name": a name, the explicit update value, None, or
\* no such key in the document.
NoField == "nofield"
PyNone == "None"
NoDoc == "nodoc"

\* data: the key, the name (or no such key), and whether the server rejects
\* the document for a reason other than the unique index.
Records == [id : MongoIds, name : Names \cup {NoField}, bad : BOOLEAN]

Batches == UNION {[1..n -> Records] : n \in 0..MaxBatch}

UpdateColumns == {<<>>, <<"name">>}

UpdateColumnsValues == {<<>>, <<"z">>}

\* condition_fields: None or empty (both false), or the unique key.
ConditionFields == {{}, {"id"}}

MongoArgs(name, datas, replace, update_columns, update_columns_value, insert_ignore, condition_fields) ==
    [name |-> name, datas |-> datas, replace |-> replace,
     update_columns |-> update_columns,
     update_columns_value |-> update_columns_value,
     insert_ignore |-> insert_ignore, condition_fields |-> condition_fields]

NoMongoOp == MongoArgs("none", <<>>, FALSE, <<>>, <<>>, FALSE, {})

Condition(ok, fields) == [ok |-> ok, fields |-> fields]

WriteError(index, code, data) == [index |-> index, code |-> code, op |-> data]

Statement(kind, cond, index) == [kind |-> kind, cond |-> cond, index |-> index]

\* self.__get_update_condition(coll_name, data, errmsg): the class defines
\* no such method and __getattr__ hands the mangled name to the Database
\* object, which refuses names that start with an underscore: the attribute
\* lookup raises AttributeError and no condition comes back.
get_update_condition(data, errmsg) == Condition(FALSE, {})

get_condition_unchecked(condition_fields, data, errmsg) ==
    Condition(TRUE, condition_fields)

\* add_batch's get_condition: condition_fields when given, or else the
\* derivation from the error text.
get_condition(condition_fields, data, errmsg) ==
    IF condition_fields # {}
    THEN Condition(TRUE, condition_fields)
    ELSE get_update_condition(data, errmsg)

\* The documents a condition built from data selects.
Matching(c, fields, data) ==
    {i \in MongoIds : c[i] # NoDoc /\ ("id" \in fields => i = data.id)}

First(S) == CHOOSE i \in S : \A j \in S : i <= j

\* collection.update_one(condition, {"$set": {"name": value}}): the first
\* matching document, if any.
update_one(c, fields, data, value) ==
    IF Matching(c, fields, data) = {} THEN c
    ELSE [c EXCEPT ![First(Matching(c, fields, data))] = value]

\* collection.replace_one(condition, data)
replace_one(c, fields, data) ==
    IF Matching(c, fields, data) = {} THEN c
    ELSE [c EXCEPT ![First(Matching(c, fields, data))] = data.name]

\* collection.insert_many(datas, ordered=False): every document is tried,
\* in order; the failures come back as writeErrors.
RECURSIVE insert_many(_, _, _)
insert_many(c, datas, i) ==
    IF i > Len(datas) THEN [coll |-> c, errors |-> <<>>]
    ELSE LET d == datas[i] IN
         IF d.bad
         THEN LET rest == insert_many(c, datas, i + 1) IN
              [rest EXCEPT !.errors = <<WriteError(i, 121, d)>> \o @]
         ELSE IF c[d.id] # NoDoc
         THEN LET rest == insert_many(c, datas, i + 1) IN
              [rest EXCEPT !.errors = <<WriteError(i, DuplicateKeyCode, d)>> \o @]
         ELSE insert_many([c EXCEPT ![d.id] = d.name], datas, i + 1)

\* doc of add_batch: zip(update_columns, update_columns_value), or
\* data.get(key) for each column.
BatchDoc(o, data) ==
    IF o.update_columns_value # <<>> THEN o.update_columns_value[1]
    ELSE IF data.name = NoField THEN PyNone ELSE data.name

MongoStart(c) ==
    /\ coll = c
    /\ m_pc = "idle"
    /\ m_op = NoMongoOp
    /\ m_errors = <<>>
    /\ m_count = 0
    /\ m_result = 0
    /\ m_err = "none"
    /\ m_stmts = <<>>
    /\ m_reported = <<>>
    /\ m_underived = 0
    /\ m_logged = {}

EmptyColl == [i \in MongoIds |-> NoDoc]

\* The collection holds any set of earlier documents.
InitMongo == \E c \in [MongoIds -> {NoDoc, "a"}] : MongoStart(c)

MongoQuiet == MongoStart(EmptyColl)

MongoRaises(kind) ==
    /\ m_pc' = "raised"
    /\ m_err' = kind

MongoReturns(value) ==
    /\ m_pc' = "done"
    /\ m_result' = value

\* The caller starts add(coll_name, data, ...).
MongoAddCall ==
    /\ m_pc = "idle"
    /\ \E data \in Records, replace \in BOOLEAN, uc \in UpdateColumns,
          ucv \in UpdateColumnsValues, insert_ignore \in BOOLEAN :
         m_op' = MongoArgs("add", <<data>>, replace, uc, ucv, insert_ignore, {})
    /\ m_pc' = "insert_one"
    /\ m_count' = 1
    /\ UNCHANGED <<coll, m_errors, m_result, m_err, m_stmts, m_reported,
                   m_underived>>
    /\ UNCHANGED m_logged
    /\ UNCHANGED nonmongo

\* try: collection.insert_one(data)
add_insert_one ==
    /\ m_pc = "insert_one"
    /\ LET data == m_op.datas[1] IN
         IF data.bad
         THEN /\ MongoRaises("WriteError")
              /\ UNCHANGED <<coll, m_result, m_reported>>
         ELSE IF coll[data.id] # NoDoc
         THEN /\ m_pc' = "duplicate"
              /\ m_reported' = <<WriteError(1, DuplicateKeyCode, data)>>
              /\ UNCHANGED <<coll, m_result, m_err>>
         ELSE /\ coll' = [coll EXCEPT ![data.id] = data.name]
              /\ MongoReturns(m_count)
              /\ UNCHANGED <<m_err, m_reported>>
    /\ UNCHANGED <<m_op, m_errors, m_count, m_stmts, m_underived>>
    /\ UNCHANGED m_logged
    /\ UNCHANGED nonmongo

\* except DuplicateKeyError: update the named columns, or replace, or
\* re-raise, or ignore; then return affect_count.
add_on_duplicate ==
    /\ m_pc = "duplicate"
    /\ LET data == m_op.datas[1]
           condition == get_update_condition(data, "errmsg")
       IN
         IF m_op.update_columns # <<>>
         THEN IF ~condition.ok
              THEN /\ MongoRaises("AttributeError")
                   /\ m_underived' = 1
                   /\ UNCHANGED <<coll, m_result, m_stmts>>
              ELSE IF m_op.update_columns_value = <<>> /\ data.name = NoField
              THEN /\ MongoRaises("KeyError")
                   /\ UNCHANGED <<coll, m_result, m_stmts, m_underived>>
              ELSE /\ coll' = update_one(coll, condition.fields, data,
                                         IF m_op.update_columns_value # <<>>
                                         THEN m_op.update_columns_value[1]
                                         ELSE data.name)
                   /\ m_stmts' = Append(m_stmts, Statement("update_one", condition.fields, 1))
                   /\ MongoReturns(m_count)
                   /\ UNCHANGED <<m_err, m_underived>>
         ELSE IF m_op.replace
         THEN IF ~condition.ok
              THEN /\ MongoRaises("AttributeError")
                   /\ m_underived' = 1
                   /\ UNCHANGED <<coll, m_result, m_stmts>>
              ELSE /\ coll' = replace_one(coll, condition.fields, data)
                   /\ m_stmts' = Append(m_stmts, Statement("replace_one", condition.fields, 1))
                   /\ MongoReturns(m_count)
                   /\ UNCHANGED <<m_err, m_underived>>
         ELSE IF ~m_op.insert_ignore
         THEN /\ MongoRaises("DuplicateKeyError")
              /\ UNCHANGED <<coll, m_result, m_stmts, m_underived>>
         ELSE /\ MongoReturns(m_count)
              /\ UNCHANGED <<coll, m_err, m_stmts, m_underived>>
    /\ UNCHANGED <<m_op, m_errors, m_count, m_reported>>
    /\ UNCHANGED m_logged
    /\ UNCHANGED nonmongo

\* The caller starts add_batch(coll_name, datas, ...).
MongoAddBatchCall ==
    /\ m_pc = "idle"
    /\ \E datas \in Batches, replace \in BOOLEAN, uc \in UpdateColumns,
          ucv \in UpdateColumnsValues, cf \in ConditionFields :
         m_op' = MongoArgs("add_batch", datas, replace, uc, ucv, FALSE, cf)
    /\ m_pc' = "insert_many"
    /\ m_count' = 0
    /\ UNCHANGED <<coll, m_errors, m_result, m_err, m_stmts, m_reported,
                   m_underived>>
    /\ UNCHANGED m_logged
    /\ UNCHANGED nonmongo

\* if not datas: return 0; add_count = len(datas); insert_many(...)
add_batch_insert_many ==
    /\ m_pc = "insert_many"
    /\ IF m_op.datas = <<>>
       THEN /\ MongoReturns(m_count)
            /\ UNCHANGED <<coll, m_errors, m_count, m_reported>>
       ELSE LET r == insert_many(coll, m_op.datas, 1) IN
            /\ coll' = r.coll
            /\ m_count' = Len(m_op.datas)
            /\ m_errors' = r.errors
            /\ m_reported' = r.errors
            /\ IF r.errors = <<>>
               THEN MongoReturns(Len(m_op.datas))
               ELSE m_pc' = "write_errors" /\ UNCHANGED m_result
    /\ UNCHANGED <<m_op, m_err, m_stmts, m_underived>>
    /\ UNCHANGED m_logged
    /\ UNCHANGED nonmongo

\* One turn of `for error in write_errors`.
add_batch_write_error ==
    /\ m_pc = "write_errors"
    /\ m_errors # <<>>
    /\ LET error == Head(m_errors)
           data == error.op
           condition == get_condition(m_op.condition_fields, data, "errmsg")
       IN
         IF error.code # DuplicateKeyCode
         THEN /\ m_errors' = Tail(m_errors)
              /\ UNCHANGED <<coll, m_pc, m_count, m_err, m_stmts, m_underived,
                             m_logged>>
         ELSE IF m_op.update_columns # <<>>
         THEN IF ~condition.ok
              THEN /\ MongoRaises("AttributeError")
                   /\ m_underived' = error.index
                   /\ UNCHANGED <<coll, m_errors, m_count, m_stmts, m_logged>>
              ELSE /\ coll' = update_one(coll, condition.fields, data, BatchDoc(m_op, data))
                   /\ m_stmts' = Append(m_stmts, Statement("update_one", condition.fields, error.index))
                   /\ m_count' = m_count - 1
                   /\ m_errors' = Tail(m_errors)
                   /\ UNCHANGED <<m_pc, m_err, m_underived, m_logged>>
         ELSE IF m_op.replace
         THEN IF ~condition.ok
              THEN /\ MongoRaises("AttributeError")
                   /\ m_underived' = error.index
                   /\ UNCHANGED <<coll, m_errors, m_count, m_stmts, m_logged>>
              ELSE /\ coll' = replace_one(coll, condition.fields, data)
                   /\ m_stmts' = Append(m_stmts, Statement("replace_one", condition.fields, error.index))
                   /\ m_count' = m_count - 1
                   /\ m_errors' = Tail(m_errors)
                   /\ UNCHANGED <<m_pc, m_err, m_underived, m_logged>>
         ELSE /\ m_logged' = m_logged \cup {error.index}
              /\ m_count' = m_count - 1
              /\ m_errors' = Tail(m_errors)
              /\ UNCHANGED <<coll, m_pc, m_err, m_stmts, m_underived>>
    /\ UNCHANGED <<m_op, m_result, m_reported>>
    /\ UNCHANGED nonmongo

\* collection.bulk_write(bulk_operations, ordered=False), each operation an
\* UpdateOne({condition_field: value}, {"$set": update_data}, upsert):
\* every operation is tried, in order.  count is modified_count +
\* upserted_count; a matched document that $set leaves as it was is not
\* counted as modified.
RECURSIVE bulk_write(_, _, _, _)
bulk_write(c, datas, upsert, i) ==
    IF i > Len(datas) THEN [coll |-> c, errors |-> <<>>, count |-> 0]
    ELSE LET d == datas[i] IN
         IF d.bad
         THEN LET rest == bulk_write(c, datas, upsert, i + 1) IN
              [rest EXCEPT !.errors = <<WriteError(i, 121, d)>> \o @]
         ELSE IF c[d.id] # NoDoc
         THEN IF d.name = NoField \/ d.name = c[d.id]
              THEN bulk_write(c, datas, upsert, i + 1)
              ELSE LET rest == bulk_write([c EXCEPT ![d.id] = d.name], datas, upsert, i + 1) IN
                   [rest EXCEPT !.count = @ + 1]
         ELSE IF upsert
         THEN LET rest == bulk_write([c EXCEPT ![d.id] = d.name], datas, upsert, i + 1) IN
              [rest EXCEPT !.count = @ + 1]
         ELSE bulk_write(c, datas, upsert, i + 1)

\* The caller starts update_batch(coll_name, update_data_list, "id", upsert).
MongoUpdateBatchCall ==
    /\ m_pc = "idle"
    /\ \E datas \in Batches, upsert \in BOOLEAN :
         m_op' = MongoArgs("update_batch", datas, upsert, <<>>, <<>>, FALSE, {"id"})
    /\ m_pc' = "bulk_write"
    /\ UNCHANGED <<coll, m_errors, m_count, m_result, m_err, m_stmts,
                   m_reported, m_underived, m_logged>>
    /\ UNCHANGED nonmongo

\* update_batch: return 0 for an empty list; bulk_write; return
\* modified_count + upserted_count, or log e.details and return 0 on
\* BulkWriteError.  m_count keeps what the backend applied.
update_batch ==
    /\ m_pc = "bulk_write"
    /\ IF m_op.datas = <<>>
       THEN /\ MongoReturns(0)
            /\ UNCHANGED <<coll, m_count, m_reported, m_logged>>
       ELSE LET r == bulk_write(coll, m_op.datas, m_op.replace, 1) IN
            /\ coll' = r.coll
            /\ m_count' = r.count
            /\ m_reported' = r.errors
            /\ IF r.errors = <<>>
               THEN MongoReturns(r.count) /\ UNCHANGED m_logged
               ELSE /\ MongoReturns(0)
                    /\ m_logged' = {r.errors[i].index : i \in 1..Len(r.errors)}
    /\ UNCHANGED <<m_op, m_errors, m_err, m_stmts, m_underived>>
    /\ UNCHANGED nonmongo

\* return add_count
add_batch_return ==
    /\ m_pc = "write_errors"
    /\ m_errors = <<>>
    /\ MongoReturns(m_count)
    /\ UNCHANGED <<coll, m_op, m_errors, m_count, m_err, m_stmts, m_reported,
                   m_underived>>
    /\ UNCHANGED m_logged
    /\ UNCHANGED nonmongo

(***************************************************************************)
(* The SQL builders of tool_mysql: format_sql_value, make_insert_sql,      *)
(* make_batch_sql, make_update_sql.  A text is a sequence of atoms (a      *)
(* letter, a blank, or the four letters None); a record is a sequence of   *)
(* key / value pairs with distinct keys, in insertion order.               *)
(***************************************************************************)
KeyName == <<"name">>
KeyIsNone == <<"is", "None">>

Keys == {KeyName, KeyIsNone}

Tables == {<<"t">>, <<"t", "None">>}

Value(type, text) == [type |-> type, text |-> text]

NoneValue == Value("none", <<"None">>)

SqlValues ==
    {NoneValue, Value("int", <<"1">>), Value("bool", <<"True">>),
     Value("str", <<"a">>), Value("str", <<"None">>), Value("str", <<" ", "a", " ">>)}

Pair(key, value) == [key |-> key, value |-> value]

SqlRecords ==
    {<<>>}
    \cup {<<Pair(k, v)>> : k \in Keys, v \in SqlValues}
    \cup {r \in {<<Pair(k1, v1), Pair(k2, v2)>> :
                    k1 \in Keys, k2 \in Keys, v1 \in SqlValues, v2 \in SqlValues} :
            r[1].key # r[2].key}

\* The further records of a batch: only their keys matter.
MoreRecords ==
    {r \in SqlRecords : \A i \in 1..Len(r) : r[i].value = Value("int", <<"1">>)}

SqlUpdateColumns == {<<>>, <<KeyName>>, <<KeyName, KeyIsNone>>}

SqlUpdateValues == {<<>>, <<<<"'v'">>>>, <<<<"'v'">>, <<"'w'">>>>}

\* str.strip()
RECURSIVE LStrip(_)
LStrip(s) == IF s # <<>> /\ Head(s) = " " THEN LStrip(Tail(s)) ELSE s

RECURSIVE RStrip(_)
RStrip(s) ==
    IF s # <<>> /\ s[Len(s)] = " " THEN RStrip(SubSeq(s, 1, Len(s) - 1)) ELSE s

Strip(s) == RStrip(LStrip(s))

\* str.replace("None", "null")
ReplaceNone(s) == [i \in 1..Len(s) |-> IF s[i] = "None" THEN "null" ELSE s[i]]

\* format_sql_value: strings are stripped, booleans become 0 / 1.
format_sql_value(value) ==
    CASE value.type = "str" -> Value("str", Strip(value.text))
      [] value.type = "bool" ->
             Value("int", IF value.text = <<"True">> THEN <<"1">> ELSE <<"0">>)
      [] OTHER -> value

\* One element of str(tuple(values)): a string in quotes, anything else bare.
Repr(value) == [quoted |-> value.type = "str", text |-> value.text]

Rendered(quoted, text) == [quoted |-> quoted, text |-> text]

KeysOf(data) == [i \in 1..Len(data) |-> data[i].key]

Get(data, key) ==
    IF \E i \in 1..Len(data) : data[i].key = key
    THEN (CHOOSE p \in {data[i] : i \in 1..Len(data)} : p.key = key).value
    ELSE NoneValue

\* A statement by its parts: the verb, the table, the column list, the
\* rows of values, and the `on duplicate key update` (or `set`) clause.
Sql(mode, ignore, table, keys, rows, update) ==
    [kind |-> "sql", mode |-> mode, ignore |-> ignore, table |-> table,
     keys |-> keys, rows |-> rows, update |-> update]

ReturnsNone == [kind |-> "none", mode |-> "none", ignore |-> FALSE, table |-> <<>>, keys |-> <<>>, rows |-> <<>>, update |-> <<>>]

NoOutput == [ReturnsNone EXCEPT !.kind = "unset"]

Assign(key, value) == [key |-> key, value |-> value]

InsertMode(update_columns, auto_update) ==
    IF update_columns # <<>> THEN "insert_on_duplicate_key_update"
    ELSE IF auto_update THEN "replace" ELSE "insert"

\* make_insert_sql: the keys and the formatted values go into the text as
\* they are, and the finished text goes through replace("None", "null").
make_insert_sql(table, data, auto_update, update_columns, insert_ignore) ==
    LET values == [i \in 1..Len(data) |-> Repr(format_sql_value(data[i].value))]
    IN Sql(InsertMode(update_columns, auto_update),
           insert_ignore /\ (update_columns # <<>> \/ ~auto_update),
           ReplaceNone(table),
           [i \in 1..Len(data) |-> ReplaceNone(data[i].key)],
           <<[i \in 1..Len(data) |->
                Rendered(values[i].quoted, ReplaceNone(values[i].text))]>>,
           [i \in 1..Len(update_columns) |->
                Assign(ReplaceNone(update_columns[i]), <<"values">>)])

Min(a, b) == IF a <= b THEN a ELSE b

\* The orders list(set(...)) can give the keys of the records.
AllKeys(datas) == UNION {{d[i].key : i \in 1..Len(d)} : d \in {datas[j] : j \in 1..Len(datas)}}

KeyOrders(datas) ==
    {ks \in UNION {[1..n -> Keys] : n \in 0..Cardinality(Keys)} :
        /\ {ks[i] : i \in 1..Len(ks)} = AllKeys(datas)
        /\ Len(ks) = Cardinality(AllKeys(datas))}

\* make_batch_sql, with keys the order list(set(...)) produced: None for an
\* empty list; else placeholders for the keys, one row of formatted values
\* per record, and the update clause zipped with update_columns_value when
\* that is given.
make_batch_sql(table, datas, auto_update, update_columns, update_columns_value, keys) ==
    IF datas = <<>> THEN ReturnsNone
    ELSE Sql(InsertMode(update_columns, auto_update),
             update_columns = <<>> /\ ~auto_update,
             table,
             keys,
             [j \in 1..Len(datas) |->
                [i \in 1..Len(keys) |->
                   LET v == format_sql_value(Get(datas[j], keys[i]))
                   IN Rendered(FALSE, v.text)]],
             IF update_columns_value # <<>>
             THEN [i \in 1..Min(Len(update_columns), Len(update_columns_value)) |->
                     Assign(update_columns[i], update_columns_value[i])]
             ELSE [i \in 1..Len(update_columns) |->
                     Assign(update_columns[i], <<"values">>)])

\* make_update_sql: `key`=repr(value) for strings, null for None.
make_update_sql(table, data) ==
    Sql("update", FALSE, table, KeysOf(data), <<>>,
        [i \in 1..Len(data) |->
           LET v == format_sql_value(data[i].value) IN
           Assign(data[i].key, IF v.type = "none" THEN <<"null">> ELSE v.text)])

\* The arguments of one call.
InitSql ==
    /\ b_table \in Tables
    /\ b_data \in SqlRecords
    /\ b_more \in {<<>>} \cup {<<r>> : r \in MoreRecords}
    /\ b_empty \in BOOLEAN
    /\ b_empty => (b_data = <<>> /\ b_more = <<>>)
    /\ b_auto_update \in BOOLEAN
    /\ b_update_columns \in SqlUpdateColumns
    /\ b_update_columns_value \in SqlUpdateValues
    /\ b_insert_ignore \in BOOLEAN
    /\ b_fn = "none"
    /\ b_out = NoOutput

SqlQuiet ==
    /\ InitSql
    /\ b_table = <<"t">>
    /\ b_empty
    /\ ~b_auto_update
    /\ b_update_columns = <<>>
    /\ b_update_columns_value = <<>>
    /\ ~b_insert_ignore

\* datas of the batch call: the empty list, or b_data and what follows it.
Datas == IF b_empty THEN <<>> ELSE <<b_data>> \o b_more

SqlReturns(fn, out) ==
    /\ b_fn = "none"
    /\ b_fn' = fn
    /\ b_out' = out
    /\ UNCHANGED <<b_table, b_data, b_more, b_empty, b_auto_update,
                   b_update_columns, b_update_columns_value, b_insert_ignore>>
    /\ UNCHANGED nonsql

call_make_insert_sql ==
    SqlReturns("make_insert_sql",
               make_insert_sql(b_table, b_data, b_auto_update, b_update_columns,
                               b_insert_ignore))

call_make_batch_sql ==
    \E keys \in KeyOrders(Datas) :
      SqlReturns("make_batch_sql",
                 make_batch_sql(b_table, Datas, b_auto_update, b_update_columns,
                                b_update_columns_value, keys))

call_make_update_sql ==
    SqlReturns("make_update_sql", make_update_sql(b_table, b_data))

(***************************************************************************)
(* MysqlDB.__init__ and MongoDB.__init__: the parameters fall back to the  *)
(* environment, the client is built inside try, and except Exception logs  *)
(* and goes on.                                                            *)
(***************************************************************************)
Params == {"ip", "port", "db", "user_name", "user_pass"}

InitCtor ==
    /\ c_given \in SUBSET Params
    /\ c_env \in SUBSET Params
    /\ c_class = "none"
    /\ c_pc = "new"
    /\ c_attrs = {}
    /\ c_logged = FALSE

CtorQuiet ==
    /\ InitCtor
    /\ c_given = Params
    /\ c_env = {}

\* if not ip: ip = os.getenv(...), and so for each parameter.
Resolved == c_given \cup c_env

\* The constructor ends by returning the object, with the handles the try
\* block came to assign.
CtorReturns(class, attrs, logged) ==
    /\ c_class = "none"
    /\ c_class' = class
    /\ c_pc' = "returned"
    /\ c_attrs' = attrs
    /\ c_logged' = logged
    /\ UNCHANGED <<c_given, c_env>>
    /\ UNCHANGED nonctor

\* MysqlDB.__init__: int(port) raises on the missing port; PooledDB opens
\* its first connection and either succeeds or raises.
MysqlDB_init ==
    \/ /\ "port" \in Resolved
       /\ CtorReturns("MysqlDB", {"connect_pool"}, FALSE)
    \/ CtorReturns("MysqlDB", {}, TRUE)

\* MongoDB.__init__: int(port) raises on the missing port; MongoClient may
\* raise; get_database raises on the missing database name.
MongoDB_init ==
    \/ /\ {"port", "db"} \subseteq Resolved
       /\ CtorReturns("MongoDB", {"client", "db"}, FALSE)
    \/ /\ "port" \in Resolved
       /\ CtorReturns("MongoDB", {"client"}, TRUE)
    \/ CtorReturns("MongoDB", {}, TRUE)

(***************************************************************************)
(* MysqlDB: the operations that take a connection from the pool.           *)
(***************************************************************************)
MysqlArgs(name, limit, to_json, callback) ==
    [name |-> name, limit |-> limit, to_json |-> to_json, callback |-> callback]

NoMysqlOp == MysqlArgs("none", 0, FALSE, FALSE)

WriteOps == {"add", "add_batch", "update", "delete", "execute"}

MysqlOps ==
    {MysqlArgs("find", l, j, FALSE) : l \in {0, 1}, j \in BOOLEAN}
    \cup {MysqlArgs("add", 0, FALSE, c) : c \in BOOLEAN}
    \cup {MysqlArgs(n, 0, FALSE, FALSE) : n \in WriteOps \ {"add"}}

InitMysql ==
    /\ y_pc = "idle"
    /\ y_op = NoMysqlOp
    /\ y_conn = FALSE
    /\ y_cursor = FALSE
    /\ pool_out = 0
    /\ cursors_open = 0
    /\ y_result = "None"
    /\ y_err = "none"
    /\ y_calls = 0

MysqlQuiescent == y_pc \in {"idle", "done", "raised"}

\* The caller starts an operation; the write operations begin with
\* conn, cursor = None, None.
MysqlCall ==
    /\ MysqlQuiescent
    /\ y_calls < MaxMysqlCalls
    /\ y_op' \in MysqlOps
    /\ y_pc' = "get_connection"
    /\ y_conn' = FALSE
    /\ y_cursor' = FALSE
    /\ y_result' = "None"
    /\ y_err' = "none"
    /\ y_calls' = y_calls + 1
    /\ UNCHANGED <<pool_out, cursors_open>>
    /\ UNCHANGED nonmysql

\* The lists add_batch_smart is given: the empty one and one record.
SmartBatches == {<<>>, <<<<Pair(KeyName, Value("int", <<"1">>))>>>>}

SmartArgs(datas) ==
    [name |-> "add_batch_smart", limit |-> 0, to_json |-> FALSE, callback |-> FALSE, datas |-> datas]

\* add_batch_smart, first line: sql, datas = make_batch_sql(table, datas).
\* Unpacking the None that make_batch_sql returns for an empty list raises
\* TypeError; otherwise add_batch(sql, datas) follows.
add_batch_smart ==
    /\ MysqlQuiescent
    /\ y_calls < MaxMysqlCalls
    /\ \E datas \in SmartBatches :
         \E keys \in KeyOrders(datas) :
           /\ y_op' = SmartArgs(datas)
           /\ IF make_batch_sql(<<"t">>, datas, FALSE, <<>>, <<>>, keys).kind = "none"
              THEN y_pc' = "raised" /\ y_err' = "TypeError"
              ELSE y_pc' = "get_connection" /\ y_err' = "none"
    /\ y_conn' = FALSE
    /\ y_cursor' = FALSE
    /\ y_result' = "None"
    /\ y_calls' = y_calls + 1
    /\ UNCHANGED <<pool_out, cursors_open>>
    /\ UNCHANGED nonmysql

\* An exception inside the operation: find has no try and the exception
\* leaves it; the write operations catch it.
MysqlFails(kind) ==
    /\ y_err' = kind
    /\ y_pc' = IF y_op.name = "find" THEN "raised" ELSE "except"

\* get_connection, first line: conn = self.connect_pool.connection()
get_connection ==
    /\ y_pc = "get_connection"
    /\ \/ /\ pool_out' = pool_out + 1
          /\ y_pc' = "cursor"
          /\ UNCHANGED y_err
       \/ /\ MysqlFails("PoolError")
          /\ UNCHANGED pool_out
    /\ UNCHANGED <<y_op, y_conn, y_cursor, cursors_open, y_result, y_calls>>
    /\ UNCHANGED nonmysql

\* get_connection, second line: cursor = conn.cursor(); return conn, cursor.
\* The caller's conn and cursor are assigned only when both lines succeeded.
get_connection_cursor ==
    /\ y_pc = "cursor"
    /\ \/ /\ cursors_open' = cursors_open + 1
          /\ y_conn' = TRUE
          /\ y_cursor' = TRUE
          /\ y_pc' = "execute"
          /\ UNCHANGED y_err
       \/ /\ MysqlFails("OperationalError")
          /\ UNCHANGED <<cursors_open, y_conn, y_cursor>>
    /\ UNCHANGED <<y_op, pool_out, y_result, y_calls>>
    /\ UNCHANGED nonmysql

\* cursor.execute(sql, ...) / cursor.executemany(sql, datas)
cursor_execute ==
    /\ y_pc = "execute"
    /\ \/ /\ y_pc' = IF y_op.name = "find" THEN "fetch" ELSE "commit"
          /\ y_result' = IF y_op.name = "find" THEN y_result ELSE "affect_count"
          /\ UNCHANGED y_err
       \/ /\ MysqlFails("ProgrammingError")
          /\ UNCHANGED y_result
    /\ UNCHANGED <<y_op, y_conn, y_cursor, pool_out, cursors_open, y_calls>>
    /\ UNCHANGED nonmysql

\* find: fetchone / fetchmany / fetchall.  fetchone gives None when the
\* query selects no row.
find_fetch ==
    /\ y_pc = "fetch"
    /\ \/ /\ y_result' \in (IF y_op.limit = 1 THEN {"row", "None"} ELSE {"rows"})
          /\ y_pc' = IF y_op.to_json THEN "convert" ELSE "close"
          /\ UNCHANGED y_err
       \/ /\ MysqlFails("OperationalError")
          /\ UNCHANGED y_result
    /\ UNCHANGED <<y_op, y_conn, y_cursor, pool_out, cursors_open, y_calls>>
    /\ UNCHANGED nonmysql

\* find, to_json: the rows become dicts; iterating or zipping None raises
\* TypeError.
find_convert ==
    /\ y_pc = "convert"
    /\ IF y_result = "None"
       THEN /\ MysqlFails("TypeError")
            /\ UNCHANGED y_result
       ELSE /\ y_result' = IF y_op.limit = 1 THEN "dict" ELSE "dicts"
            /\ y_pc' = "close"
            /\ UNCHANGED y_err
    /\ UNCHANGED <<y_op, y_conn, y_cursor, pool_out, cursors_open, y_calls>>
    /\ UNCHANGED nonmysql

\* conn.commit()
conn_commit ==
    /\ y_pc = "commit"
    /\ \/ /\ y_pc' = "close"
          /\ UNCHANGED y_err
       \/ MysqlFails("OperationalError")
    /\ UNCHANGED <<y_op, y_conn, y_cursor, pool_out, cursors_open, y_result,
                   y_calls>>
    /\ UNCHANGED nonmysql

\* except Exception as e: log.error(...); add also calls
\* exception_callfunc(e), which may raise in its turn.
mysql_except ==
    /\ y_pc = "except"
    /\ y_pc' = "close"
    /\ \/ y_err' = "none"
       \/ /\ y_op.callback
          /\ y_err' = "CallbackError"
    /\ UNCHANGED <<y_op, y_conn, y_cursor, pool_out, cursors_open, y_result,
                   y_calls>>
    /\ UNCHANGED nonmysql

\* close_connection(conn, cursor), last line of find and the finally of the
\* write operations: if conn: conn.close(); if cursor: cursor.close().
close_connection ==
    /\ y_pc = "close"
    /\ pool_out' = IF y_conn THEN pool_out - 1 ELSE pool_out
    /\ cursors_open' = IF y_cursor THEN cursors_open - 1 ELSE cursors_open
    /\ y_pc' = IF y_err # "none" THEN "raised" ELSE "return"
    /\ UNCHANGED <<y_op, y_conn, y_cursor, y_result, y_err, y_calls>>
    /\ UNCHANGED nonmysql

\* return result / affect_count; add returns cursor.lastrowid, and cursor
\* is still None when get_connection raised.
mysql_return ==
    /\ y_pc = "return"
    /\ IF y_op.name = "add"
       THEN IF y_cursor
            THEN y_pc' = "done" /\ y_result' = "lastrowid" /\ UNCHANGED y_err
            ELSE y_pc' = "raised" /\ y_err' = "AttributeError" /\ UNCHANGED y_result
       ELSE y_pc' = "done" /\ UNCHANGED <<y_result, y_err>>
    /\ UNCHANGED <<y_op, y_conn, y_cursor, pool_out, cursors_open, y_calls>>
    /\ UNCHANGED nonmysql

\* A connection and cursor that nothing closed are garbage once the
\* operation was left; when the interpreter finalizes them the pool takes
\* the connection back.  The operations do not decide when this happens.
finalize ==
    /\ MysqlQuiescent
    /\ pool_out > 0 \/ cursors_open > 0
    /\ pool_out' = 0
    /\ cursors_open' = 0
    /\ UNCHANGED <<y_pc, y_op, y_conn, y_cursor, y_result, y_err, y_calls>>
    /\ UNCHANGED nonmysql

(***************************************************************************)
(* RabbitMqDB: the constructor, _connect, _ensure_connection and the       *)
(* public operations, against a broker that comes and goes.                *)
(***************************************************************************)
RabbitOps == {"declare_exchange", "declare_and_bind_queue", "send_message",
              "receive_message"}

\* What an operation does, in order: _ensure_connection, or a call on
\* self.channel.  send_message and receive_message call declare_exchange,
\* and receive_message calls declare_and_bind_queue, each with its own
\* _ensure_connection.
RabbitSteps(o) ==
    CASE o = "declare_exchange" -> <<"ensure", "exchange_declare">>
      [] o = "declare_and_bind_queue" -> <<"ensure", "queue_declare", "queue_bind">>
      [] o = "send_message" ->
             <<"ensure", "ensure", "exchange_declare", "basic_publish">>
      [] o = "receive_message" ->
             <<"ensure", "ensure", "exchange_declare", "ensure", "queue_declare",
               "queue_bind", "basic_consume", "start_consuming">>
      [] OTHER -> <<>>

\* Whether an exception at this point is caught inside the operation:
\* send_message wraps everything in try / except Exception, receive_message
\* only start_consuming.
Swallows(o, step) ==
    \/ o = "send_message"
    \/ o = "receive_message" /\ step = "start_consuming"

InitRabbit ==
    /\ reconnect_attempts \in 0..MaxAttempts
    /\ broker_up \in BOOLEAN
    /\ q_outages = 0
    /\ connection = "none"
    /\ channel = "none"
    /\ q_pc = "new"
    /\ q_op = "none"
    /\ q_todo = <<>>
    /\ attempt = 0
    /\ q_in_except = FALSE
    /\ q_tried = 0
    /\ q_slept = 0
    /\ q_exhausted = FALSE
    /\ q_err = "none"
    /\ q_calls = 0

RabbitQuiet ==
    /\ InitRabbit
    /\ reconnect_attempts = 0
    /\ broker_up

\* The broker goes away: the connection and its channel are closed.
BrokerDown ==
    /\ broker_up
    /\ q_outages < MaxBrokerOutages
    /\ broker_up' = FALSE
    /\ q_outages' = q_outages + 1
    /\ connection' = IF connection = "open" THEN "closed" ELSE connection
    /\ channel' = IF channel = "open" THEN "closed" ELSE channel
    /\ UNCHANGED <<reconnect_attempts, q_pc, q_op, q_todo, attempt, q_in_except,
                   q_tried, q_slept, q_exhausted, q_err, q_calls>>
    /\ UNCHANGED nonrabbit

BrokerUp ==
    /\ ~broker_up
    /\ broker_up' = TRUE
    /\ UNCHANGED <<reconnect_attempts, q_outages, connection, channel, q_pc, q_op,
                   q_todo, attempt, q_in_except, q_tried, q_slept, q_exhausted,
                   q_err, q_calls>>
    /\ UNCHANGED nonrabbit

\* The broker closes the channel alone (a channel-level error).
ChannelClosed ==
    /\ channel = "open"
    /\ q_outages < MaxBrokerOutages
    /\ q_outages' = q_outages + 1
    /\ channel' = "closed"
    /\ UNCHANGED <<reconnect_attempts, broker_up, connection, q_pc, q_op, q_todo,
                   attempt, q_in_except, q_tried, q_slept, q_exhausted, q_err,
                   q_calls>>
    /\ UNCHANGED nonrabbit

\* _connect is entered: `for attempt in range(1, reconnect_attempts + 1)`.
\* With reconnect_attempts = 0 the body never runs and _connect returns.
EnterConnect(in_except, after) ==
    /\ q_in_except' = in_except
    /\ IF reconnect_attempts >= 1
       THEN /\ attempt' = 1
            /\ q_pc' = "connect"
            /\ UNCHANGED q_todo
       ELSE /\ q_pc' = IF after = <<>> THEN "done" ELSE "step"
            /\ q_todo' = after
            /\ UNCHANGED attempt

\* RabbitMqDB(...): __init__ stores the parameters and calls _connect.
RabbitInit ==
    /\ q_pc = "new"
    /\ q_op' = "init"
    /\ EnterConnect(FALSE, <<>>)
    /\ UNCHANGED <<reconnect_attempts, broker_up, q_outages, connection, channel,
                   q_tried, q_slept, q_exhausted, q_err, q_calls>>
    /\ UNCHANGED nonrabbit

\* The caller starts a public operation on the constructed object.
RabbitCall ==
    /\ q_pc \in {"done", "raised"}
    /\ q_op # "init" \/ q_pc = "done"
    /\ q_calls < MaxRabbitCalls
    /\ \E o \in RabbitOps :
         /\ q_op' = o
         /\ q_todo' = RabbitSteps(o)
    /\ q_pc' = "step"
    /\ attempt' = 0
    /\ q_in_except' = FALSE
    /\ q_tried' = 0
    /\ q_slept' = 0
    /\ q_exhausted' = FALSE
    /\ q_err' = "none"
    /\ q_calls' = q_calls + 1
    /\ UNCHANGED <<reconnect_attempts, broker_up, q_outages, connection, channel>>
    /\ UNCHANGED nonrabbit

\* An exception leaves the current step of the operation.
RabbitFails(kind) ==
    /\ q_err' = kind
    /\ q_pc' = IF q_todo # <<>> /\ Swallows(q_op, Head(q_todo)) THEN "done"
               ELSE "raised"

\* _ensure_connection up to its first decision: reconnect when the
\* connection is missing or closed, rebuild the channel when only the
\* channel is, else nothing.  An exception of connection.channel() goes to
\* the except clause, which calls _connect.
ensure_connection ==
    /\ q_pc = "step"
    /\ q_todo # <<>>
    /\ Head(q_todo) = "ensure"
    /\ q_tried' = 0
    /\ q_slept' = 0
    /\ IF connection \in {"none", "closed"}
       THEN /\ EnterConnect(FALSE, Tail(q_todo))
            /\ UNCHANGED channel
       ELSE IF channel \in {"none", "closed"}
       THEN \/ /\ broker_up
               /\ channel' = "open"
               /\ q_todo' = Tail(q_todo)
               /\ UNCHANGED <<q_pc, attempt, q_in_except>>
            \/ /\ EnterConnect(TRUE, Tail(q_todo))
               /\ UNCHANGED channel
       ELSE /\ q_todo' = Tail(q_todo)
            /\ UNCHANGED <<q_pc, attempt, q_in_except, channel>>
    /\ UNCHANGED <<reconnect_attempts, broker_up, q_outages, connection, q_op,
                   q_exhausted, q_err, q_calls>>
    /\ UNCHANGED nonrabbit

\* What follows a _connect that returned: the constructor is done,
\* _ensure_connection returns to its operation.
AfterConnect ==
    IF q_op = "init"
    THEN q_pc' = "done" /\ UNCHANGED q_todo
    ELSE q_pc' = "step" /\ q_todo' = Tail(q_todo)

\* One turn of the loop of _connect.  BlockingConnection(parameters) and
\* connection.channel() succeed and _connect returns; or one of them raises:
\* before the last attempt the loop sleeps, at the last attempt it raises
\* ConnectionError.  Raised from the try block of _ensure_connection, the
\* error is caught there and _connect is called again; raised from the
\* except clause or from the constructor, it leaves the operation.
connect_attempt ==
    /\ q_pc = "connect"
    /\ q_tried' = q_tried + 1
    /\ \/ /\ broker_up
          /\ connection' = "open"
          /\ channel' = "open"
          /\ AfterConnect
          /\ UNCHANGED <<attempt, q_in_except, q_exhausted, q_err>>
       \/ /\ \/ ~broker_up /\ UNCHANGED connection
             \/ broker_up /\ connection' = "open"
          /\ UNCHANGED channel
          /\ IF attempt < reconnect_attempts
             THEN /\ q_pc' = "sleep"
                  /\ UNCHANGED <<q_todo, attempt, q_in_except, q_exhausted, q_err>>
             ELSE IF q_op # "init" /\ ~q_in_except
             THEN /\ q_in_except' = TRUE
                  /\ attempt' = 1
                  /\ UNCHANGED <<q_pc, q_todo, q_exhausted, q_err>>
             ELSE /\ q_exhausted' = TRUE
                  /\ RabbitFails("ConnectionError")
                  /\ UNCHANGED <<q_todo, attempt, q_in_except>>
    /\ UNCHANGED <<reconnect_attempts, broker_up, q_outages, q_op, q_slept,
                   q_calls>>
    /\ UNCHANGED nonrabbit

\* time.sleep(self.reconnect_delay), then the next attempt.
connect_sleep ==
    /\ q_pc = "sleep"
    /\ q_slept' = q_slept + 1
    /\ attempt' = attempt + 1
    /\ q_pc' = "connect"
    /\ UNCHANGED <<reconnect_attempts, broker_up, q_outages, connection, channel,
                   q_op, q_todo, q_in_except, q_tried, q_exhausted, q_err,
                   q_calls>>
    /\ UNCHANGED nonrabbit

\* self.channel.exchange_declare(...) and the other calls on self.channel:
\* AttributeError when channel is None, a channel error when it is closed.
channel_call ==
    /\ q_pc = "step"
    /\ q_todo # <<>>
    /\ Head(q_todo) # "ensure"
    /\ IF channel = "open"
       THEN /\ q_todo' = Tail(q_todo)
            /\ q_pc' = IF Tail(q_todo) = <<>> THEN "done" ELSE "step"
            /\ UNCHANGED q_err
       ELSE /\ RabbitFails(IF channel = "none" THEN "AttributeError"
                           ELSE "ChannelWrongStateError")
            /\ UNCHANGED q_todo
    /\ UNCHANGED <<reconnect_attempts, broker_up, q_outages, connection, channel,
                   q_op, attempt, q_in_except, q_tried, q_slept, q_exhausted,
                   q_calls>>
    /\ UNCHANGED nonrabbit

\* Any public method, called once by the client.
RedisCall(t) == RedisCallOf(t, Ops, 1)

\* Only sget_count, MaxCalls calls per thread.
CountOps == {o \in Ops : o.name = "sget_count"}

RedisCountCall(t) == RedisCallOf(t, CountOps, MaxCalls)

\* One client thread using every method.
RedisNext ==
    \/ BackendDown
    \/ BackendUp
    \/ \E t \in {"t1"} :
         \/ RedisCall(t)
         \/ sdelete(t)
         \/ redis_getter(t)
         \/ reconnect(t)
         \/ reconnect_sleep(t)
         \/ redis_getter_return(t)
         \/ single(t)
         \/ sget_scard1(t)
         \/ sget_scard2(t)
         \/ sget_spop(t)
         \/ lpop_llen(t)
         \/ lpop_one(t)
         \/ pipeline(t)
         \/ execute(t)
         \/ execute_unordered(t)

\* The connection handling alone: several threads share the object and
\* only count.
InitConn ==
    /\ InitRedis
    /\ MongoQuiet
    /\ InitMysql
    /\ RabbitQuiet
    /\ SqlQuiet
    /\ CtorQuiet
    /\ sstore = Elems
    /\ lstore = <<>>

ConnNext ==
    \/ BackendDown
    \/ BackendUp
    \/ \E t \in Threads :
         \/ RedisCountCall(t)
         \/ redis_getter(t)
         \/ reconnect(t)
         \/ reconnect_sleep(t)
         \/ redis_getter_return(t)
         \/ single(t)

\* Only the popping calls: sget(is_pop=True) and lpop.
PopOps == {o \in Ops : (o.name = "sget" /\ o.is_pop) \/ o.name = "lpop"}

RedisPopCall(t) == RedisCallOf(t, PopOps, 1)

\* Two clients popping from the same containers, the server staying up.
PopNext ==
    \E t \in Threads :
      \/ RedisPopCall(t)
      \/ redis_getter(t)
      \/ sget_scard1(t)
      \/ sget_scard2(t)
      \/ sget_spop(t)
      \/ lpop_llen(t)
      \/ lpop_one(t)
      \/ pipeline(t)
      \/ execute(t)
      \/ execute_unordered(t)

\* One subscriber, with publishers and outages around it.
SubNext ==
    \/ BackendDown
    \/ BackendUp
    \/ Publish
    \/ \E t \in {"t1"} :
         \/ SubscribeCall(t)
         \/ redis_getter(t)
         \/ reconnect(t)
         \/ reconnect_sleep(t)
         \/ redis_getter_return(t)
         \/ pubsub_subscribe(t)
         \/ listen_next(t)
         \/ listen_handler_raises(t)
         \/ listen_connection_lost(t)
         \/ RequestStop(t)
         \/ interrupt(t)
         \/ pubsub_del(t)

\* One call of add or add_batch on a collection with earlier documents.
MongoNext ==
    \/ MongoAddCall
    \/ add_insert_one
    \/ add_on_duplicate
    \/ MongoAddBatchCall
    \/ add_batch_insert_many
    \/ add_batch_write_error
    \/ add_batch_return
    \/ MongoUpdateBatchCall
    \/ update_batch

RedisQuiet ==
    /\ InitRedis
    /\ sstore = {}
    /\ lstore = <<>>
    /\ topology = "single"

\* A sequence of MysqlDB operations, one at a time.
MysqlNext ==
    \/ MysqlCall
    \/ add_batch_smart
    \/ get_connection
    \/ get_connection_cursor
    \/ cursor_execute
    \/ find_fetch
    \/ find_convert
    \/ conn_commit
    \/ mysql_except
    \/ close_connection
    \/ mysql_return
    \/ finalize

\* The constructor and a sequence of RabbitMqDB operations.
RabbitNext ==
    \/ BrokerDown
    \/ BrokerUp
    \/ ChannelClosed
    \/ RabbitInit
    \/ RabbitCall
    \/ ensure_connection
    \/ connect_attempt
    \/ connect_sleep
    \/ channel_call

\* One call of one SQL builder, on any arguments.
SqlNext ==
    \/ call_make_insert_sql
    \/ call_make_batch_sql
    \/ call_make_update_sql

\* The construction of one client, on any parameters.
CtorNext ==
    \/ MysqlDB_init
    \/ MongoDB_init

Elsewhere == MongoQuiet /\ InitMysql /\ RabbitQuiet /\ SqlQuiet /\ CtorQuiet

Init == InitRedis /\ Elsewhere

InitMongoOnly == RedisQuiet /\ InitMongo /\ InitMysql /\ RabbitQuiet /\ SqlQuiet /\ CtorQuiet

InitMysqlOnly == RedisQuiet /\ Elsewhere

InitRabbitOnly == RedisQuiet /\ MongoQuiet /\ InitMysql /\ InitRabbit /\ SqlQuiet /\ CtorQuiet

InitSqlOnly == RedisQuiet /\ MongoQuiet /\ InitMysql /\ RabbitQuiet /\ InitSql /\ CtorQuiet

InitCtorOnly == RedisQuiet /\ MongoQuiet /\ InitMysql /\ RabbitQuiet /\ SqlQuiet /\ InitCtor

Spec == Init /\ [][RedisNext]_vars

SpecConn == InitConn /\ [][ConnNext]_vars

SpecPop == Init /\ [][PopNext]_vars

SpecSub == InitConn /\ [][SubNext]_vars

SpecMongo == InitMongoOnly /\ [][MongoNext]_vars

SpecMysql == InitMysqlOnly /\ [][MysqlNext]_vars

SpecRabbit == InitRabbitOnly /\ [][RabbitNext]_vars

SpecSql == InitSqlOnly /\ [][SqlNext]_vars

SpecCtor == InitCtorOnly /\ [][CtorNext]_vars

(***************************************************************************)
(* Properties of RedisDB.                                                  *)
(***************************************************************************)
Finished(t) == pc[t] \in {"done", "raised"}

IsPop(o) == (o.name = "sget" /\ o.is_pop) \/ o.name = "lpop"

Reconnecting(t) == pc[t] \in {"reconnect", "sleep"}

\* C1: a reconnect makes at most a configured number of attempts
\* (AttemptLimit) and then raises: no call is still in the retry loop,
\* about to sleep or to try again, once that many attempts have failed.
C1_BoundedReconnect ==
    \A t \in Threads : Reconnecting(t) => retry_count[t] < AttemptLimit

C8_OneClientPerOutage ==
    /\ Cardinality(live) <= 1
    /\ \A t, u \in Threads :
         (conn[t] \in live /\ conn[u] \in live) => conn[t] = conn[u]

\* C9: on a single node every pipelined call queues its commands after
\* pipe.multi() and sends them by one execute; whatever goes out in MULTI
\* takes effect as a whole or not at all; only on a cluster does the queue
\* go out without MULTI.
C9_PipelineAtomicity ==
    \A t \in Threads :
        pipe[t].cmds # <<>>
        => /\ topology = "single" => (pipe[t].explicit /\ InMulti(pipe[t]))
           /\ ~InMulti(pipe[t]) => topology = "cluster"
           /\ InMulti(pipe[t]) => applied[t] \in {0, Len(pipe[t].cmds)}
           /\ (InMulti(pipe[t]) /\ ~IsPop(op[t])) => issued[t] <= 1
           /\ pc[t] = "done" => applied[t] = Len(pipe[t].cmds)

C9_Witness ==
    \E t \in Threads :
        /\ topology = "single" /\ pc[t] = "done"
        /\ op[t].name = "sadd" /\ op[t].is_list /\ Len(op[t].values) = 2
        /\ applied[t] = 2 /\ sstore = Elems

\* C10: subscribe dispatches every message of type 'message' once and in
\* arrival order until the caller asks for a stop; after the request the
\* call ends by returning, and the subscription is unsubscribed and closed.
C10_CleanCancellation ==
    \A t \in Threads :
      op[t].name = "subscribe" =>
        /\ \A i \in 1..(Len(handled) - 1) : handled[i + 1] = handled[i] + 1
        /\ (stop_requested /\ Finished(t)) =>
              (pc[t] = "done" /\ sub_state = "closed")

(***************************************************************************)
(* Properties of MongoDB.                                                  *)
(***************************************************************************)
MongoFinished == m_pc \in {"done", "raised"}

Conflicts == SelectSeq(m_reported, LAMBDA e : e.code = DuplicateKeyCode)

OtherFailures == SelectSeq(m_reported, LAMBDA e : e.code # DuplicateKeyCode)

\* The last conflicting record of the batch that carries the key of e.
LastConflict(e) ==
    LET S == {i \in 1..Len(Conflicts) : Conflicts[i].op.id = e.op.id}
    IN Conflicts[CHOOSE i \in S : \A j \in S : j <= i].op

\* C3: an add_batch of N records, M of them reported as duplicate keys and
\* none failing otherwise, returns N - M, and on return every conflicting
\* record has been updated (update_columns) or replaced (replace) in the
\* store, with condition_fields as with the derived condition.
C3_BatchNetCount ==
    (m_op.name = "add_batch" /\ MongoFinished /\ OtherFailures = <<>>) =>
      /\ m_pc = "done"
      /\ m_result = Len(m_op.datas) - Len(Conflicts)
      /\ \A i \in 1..Len(Conflicts) :
           LET e == Conflicts[i] IN
             /\ m_op.update_columns # <<>> =>
                  coll[e.op.id] = BatchDoc(m_op, LastConflict(e))
             /\ (m_op.update_columns = <<>> /\ m_op.replace) =>
                  coll[e.op.id] = LastConflict(e).name

\* C4: add of a record whose key collides, with update_columns naming
\* fields of the record, leaves those fields of the stored record equal to
\* the new record's and returns a net-insert count of 0.
C4_AddUpdatesOnConflict ==
    (/\ m_op.name = "add"
     /\ MongoFinished
     /\ Conflicts # <<>>
     /\ m_op.update_columns = <<"name">>
     /\ m_op.update_columns_value = <<>>
     /\ m_op.datas[1].name # NoField) =>
      /\ m_pc = "done"
      /\ coll[m_op.datas[1].id] = m_op.datas[1].name
      /\ m_result = 0

Succeeded ==
    IF m_op.name = "update_batch" THEN m_count
    ELSE Len(m_op.datas) - Len(m_reported)

\* C11: in add_batch and update_batch a non-conflict failure of some items
\* is logged, the sibling items are still handled, and the call returns
\* the number of items that succeeded, not 0, not a count that includes
\* failed items, and not an exception.
C11_PartialFailureCount ==
    (/\ m_op.name \in {"add_batch", "update_batch"}
     /\ MongoFinished
     /\ OtherFailures # <<>>
     /\ Conflicts = <<>>) =>
      /\ m_pc = "done"
      /\ m_result = Succeeded
      /\ \A i \in 1..Len(OtherFailures) : OtherFailures[i].index \in m_logged

(***************************************************************************)
(* Properties of MysqlDB.                                                  *)
(***************************************************************************)
\* C7: find, add, add_batch, update, delete and execute release the
\* connection and its cursor on every exit path, also when cursor creation,
\* execution, fetching or conversion raises: whenever no operation is
\* running, no connection is held outside the pool and no cursor is open.
C7_ReleasedOnEveryPath ==
    MysqlQuiescent => (pool_out = 0 /\ cursors_open = 0)

(***************************************************************************)
(* Properties of RabbitMqDB.                                               *)
(***************************************************************************)
RabbitFinished == q_pc \in {"done", "raised"}

\* C12: a public operation makes at most reconnect_attempts connection
\* attempts, with a delay between consecutive attempts, and when none
\* succeeds the connection failure is raised to its caller.
C12_BoundedAttemptsRaised ==
    q_op \in RabbitOps =>
      /\ q_tried <= reconnect_attempts
      /\ q_tried >= 1 => q_slept >= q_tried - 1 - (IF q_pc = "sleep" THEN 1 ELSE 0)
      /\ (q_exhausted /\ RabbitFinished) =>
            (q_pc = "raised" /\ q_err = "ConnectionError")

\* C14: make_batch_sql given an empty list fails with a validation error,
\* and add_batch_smart given an empty list passes that error to its caller
\* with no connection taken from the pool and no statement submitted.
C14_EmptyBatchRejected ==
    (y_op.name = "add_batch_smart" /\ y_op.datas = <<>>) =>
      /\ make_batch_sql(<<"t">>, y_op.datas, FALSE, <<>>, <<>>, <<>>).kind = "raised"
      /\ y_pc = "raised"
      /\ y_err = "ValidationError"
      /\ ~y_conn /\ ~y_cursor

\* The handles a usable client has.
Handles == IF c_class = "MysqlDB" THEN {"connect_pool"} ELSE {"client", "db"}

\* C16: constructing MysqlDB or MongoDB with a connection parameter that
\* is missing after the fall back to the environment, or that does not
\* lead to a connection, raises to the caller; no object without its
\* handles is returned.
C16_ConstructionFailsLoudly ==
    c_class # "none" =>
      /\ (Resolved # Params \/ c_logged) => c_pc = "raised"
      /\ c_pc = "returned" => Handles \subseteq c_attrs

(***************************************************************************)
(* The SQL builders.                                                       *)
(***************************************************************************)
Built(fns) == b_fn \in fns /\ b_out.kind = "sql"

UpdateKeys == [i \in 1..Len(b_out.update) |-> b_out.update[i].key]

\* C13: make_batch_sql given a non-empty update_columns and an
\* update_columns_value of another length fails with a validation error
\* and returns no SQL text; the update clause is never cut down to the
\* shorter of the two.
C13_MismatchRejected ==
    (/\ b_fn = "make_batch_sql"
     /\ Datas # <<>>
     /\ b_update_columns # <<>>
     /\ b_update_columns_value # <<>>
     /\ Len(b_update_columns_value) # Len(b_update_columns)) =>
       /\ b_out.kind = "raised"
       /\ ~(b_out.kind = "sql" /\ Len(b_out.update) < Len(b_update_columns))

\* C15: make_insert_sql and make_update_sql fail on an empty record, and
\* never return a statement whose column list, values list or set clause
\* is empty.
C15_EmptyRecordRejected ==
    /\ (b_fn \in {"make_insert_sql", "make_update_sql"} /\ b_data = <<>>) =>
         b_out.kind = "raised"
    /\ Built({"make_insert_sql"}) => (b_out.keys # <<>> /\ b_out.rows[1] # <<>>)
    /\ Built({"make_update_sql"}) => b_out.update # <<>>

\* C17: with update_columns the statement is insert ... on duplicate key
\* update over exactly those columns whatever auto_update is; replace into
\* comes only from an empty update_columns with auto_update; with neither,
\* both builders give a plain insert.
C17_InsertModes ==
    Built({"make_insert_sql", "make_batch_sql"}) =>
      /\ b_update_columns # <<>> =>
           (b_out.mode = "insert_on_duplicate_key_update" /\ UpdateKeys = b_update_columns)
      /\ b_out.mode = "replace" => (b_update_columns = <<>> /\ b_auto_update)
      /\ (b_update_columns = <<>> /\ ~b_auto_update) =>
           /\ b_out.mode = "insert"
           /\ b_out.ignore = (b_fn = "make_insert_sql" /\ b_insert_ignore)

\* The keys of the records in the order they are first seen.
RECURSIVE FirstSeen(_, _)
FirstSeen(seen, pairs) ==
    IF pairs = <<>> THEN seen
    ELSE FirstSeen(IF \E i \in 1..Len(seen) : seen[i] = Head(pairs).key
                   THEN seen ELSE Append(seen, Head(pairs).key),
                   Tail(pairs))

RECURSIVE Flatten(_)
Flatten(datas) == IF datas = <<>> THEN <<>> ELSE Head(datas) \o Flatten(Tail(datas))

\* C18: the column list of make_batch_sql is the union of the records'
\* keys in first-seen order, and the values are one row per record, in
\* record order, each with one coerced value per column in that order,
\* None where the record lacks the key.
C18_StableColumnOrder ==
    Built({"make_batch_sql"}) =>
      /\ b_out.keys = FirstSeen(<<>>, Flatten(Datas))
      /\ Len(b_out.rows) = Len(Datas)
      /\ \A j \in 1..Len(Datas) :
           /\ Len(b_out.rows[j]) = Len(b_out.keys)
           /\ \A i \in 1..Len(b_out.keys) :
                b_out.rows[j][i].text =
                  IF b_out.keys[i] \in {Datas[j][k].key : k \in 1..Len(Datas[j])}
                  THEN format_sql_value(Get(Datas[j], b_out.keys[i])).text
                  ELSE <<"None">>

\* C19: make_insert_sql writes null for every None of the record, and
\* every string and number, the table name and the column names with
\* exactly their characters.
C19_LosslessRendering ==
    Built({"make_insert_sql"}) =>
      /\ b_out.table = b_table
      /\ b_out.keys = KeysOf(b_data)
      /\ \A i \in 1..Len(b_data) :
           /\ b_data[i].value.type = "none" =>
                b_out.rows[1][i] = Rendered(FALSE, <<"null">>)
           /\ b_data[i].value.type \in {"str", "int"} =>
                b_out.rows[1][i] =
                  Rendered(b_data[i].value.type = "str", b_data[i].value.text)

\* The columns of the insert list of the call.
InsertColumns ==
    IF b_fn = "make_insert_sql" THEN {b_data[i].key : i \in 1..Len(b_data)}
    ELSE AllKeys(Datas)

\* C20: make_insert_sql and make_batch_sql, given an update column that
\* no record has and no update_columns_value, fail with an error; none
\* writes an on duplicate key update clause for a column that is not in
\* the insert column list.
C20_AbsentUpdateColumnRejected ==
    (/\ b_fn \in {"make_insert_sql", "make_batch_sql"}
     /\ b_fn = "make_batch_sql" => Datas # <<>>
     /\ b_update_columns_value = <<>>
     /\ \E i \in 1..Len(b_update_columns) : b_update_columns[i] \notin InsertColumns) =>
       /\ b_out.kind = "raised"
       /\ \A i \in 1..Len(b_out.update) :
            b_out.update[i].key \in {b_out.keys[k] : k \in 1..Len(b_out.keys)}

\* C21: after sdelete(table) has returned, the set stored at table has no
\* members, whatever its size before the call.
C21_SdeleteEmpties ==
    (op["t1"].name = "sdelete" /\ pc["t1"] = "done") => sstore = {}

\* The elements a finished pop handed back.
Popped(t) ==
    IF pc[t] = "done" /\ IsPop(op[t])
    THEN {result[t].items[i] : i \in 1..Len(result[t].items)}
    ELSE {}

\* C22: when two clients pop from the same container at the same time,
\* every returned list holds only real elements, no None for a pop on an
\* emptied container, and the two clients get disjoint elements.
C22_ConcurrentPopsClamped ==
    /\ \A t \in Threads : NULL \notin Popped(t)
    /\ op["t1"].name = op["t2"].name => Popped("t1") \cap Popped("t2") \subseteq {NULL}

\* The statements that ran after the insert, by kind.
StatementKinds == [i \in 1..Len(m_stmts) |-> m_stmts[i].kind]

\* C23: on a duplicate key in add, a configured fallback runs exactly one
\* more statement (update_one with update_columns, else replace_one with
\* replace); with insert_ignore alone nothing more runs and add returns;
\* with no policy the DuplicateKeyError is raised again and nothing more
\* runs.
C23_OneFallbackStatement ==
    (m_op.name = "add" /\ MongoFinished /\ Conflicts # <<>>) =>
      /\ m_op.update_columns # <<>> => StatementKinds = <<"update_one">>
      /\ (m_op.update_columns = <<>> /\ m_op.replace) =>
           StatementKinds = <<"replace_one">>
      /\ (m_op.update_columns = <<>> /\ ~m_op.replace /\ m_op.insert_ignore) =>
           (StatementKinds = <<>> /\ m_pc = "done")
      /\ (m_op.update_columns = <<>> /\ ~m_op.replace /\ ~m_op.insert_ignore) =>
           (StatementKinds = <<>> /\ m_pc = "raised" /\ m_err = "DuplicateKeyError")

\* The step in which _connect, called by the constructor, returns.
ConnectReturned == q_op' = "init" /\ q_pc # "done" /\ q_pc' = "done"

\* The step in which _ensure_connection returns to its operation.
EnsureReturned ==
    /\ q_op \in RabbitOps
    /\ q_todo # <<>>
    /\ Head(q_todo) = "ensure"
    /\ q_todo' = Tail(q_todo)
    /\ q_pc' = "step"

\* C24: for every reconnect_attempts, 0 included, _connect and
\* _ensure_connection raise ConnectionError or return with an open
\* connection and an open channel on it; neither returns leaving
\* connection or channel None or closed.
C24_ReturnsConnected ==
    [][(ConnectReturned \/ EnsureReturned) =>
         (connection' = "open" /\ channel' = "open")]_vars

\* C25: add, add_batch, update, delete and execute let no exception of
\* the connection acquisition, the execution or the commit out: the error
\* is caught and logged, the connection is closed and the call returns,
\* the affected count it returns after a failure being None.
C25_WriteErrorsSwallowed ==
    y_op.name \in WriteOps =>
      /\ y_pc # "raised"
      /\ (y_pc = "except" /\ y_op.name # "add") => y_result = "None"
      /\ y_pc \in {"return", "done"} => (pool_out = 0 /\ cursors_open = 0)

====
